---- MODULE Spec2Model ----
(***************************************************************************)
(* Key event verification of keripy (src/keri/core/eventing.py): Kever,    *)
(* the per-identifier key state verifier, Kevery, the event processing     *)
(* facility with its escrows, and the escrow passes.                       *)
(*                                                                         *)
(* Cryptography is idealised.  A digest is a name that stands for exactly  *)
(* one serialised event (field d of the event records below), a signature  *)
(* is the triple of its index, the key that made it and the digest of the  *)
(* message it signs, and it verifies only under that key and message.      *)
(* The key value store (keri.db.dbing.Baser) and the primitives of         *)
(* keri.core.coring are not part of the sources at hand; they are modelled *)
(* from their contracts.                                                   *)
(*                                                                         *)
(* Kevery is modelled with cloned = False and check = False, so the        *)
(* first seen replay couple (firner, dater) is never used.                 *)
(***************************************************************************)
EXTENDS Integers, Sequences, FiniteSets, TLC

VARIABLES
    kevers,   \* Kevery.kevers: prefix -> Kever key state
    evts,     \* Baser .evts : (pre, dig) -> serialised event
    kels,     \* Baser .kels : (pre, sn) -> digests, in insertion order
    fels,     \* Baser .fels : pre -> digests in first seen order
    sigs,     \* Baser .sigs : (pre, dig) -> controller indexed signatures
    wigs,     \* Baser .wigs : (pre, dig) -> witness indexed signatures
    dtss,     \* Baser .dtss : (pre, dig) -> datetime stamp
    aess,     \* Baser .aess : (pre, dig) -> authorizer (delegator) couple
    pdes,     \* Baser .pdes : (pre, dig) -> escrowed authorizer couple
    ooes,     \* Baser .ooes : (pre, sn) -> out of order escrow
    pses,     \* Baser .pses : (pre, sn) -> partially signed escrow
    pwes,     \* Baser .pwes : (pre, sn) -> partially witnessed escrow
    ldes,     \* Baser .ldes : (pre, sn) -> likely duplicitous escrow
    uwes,     \* Baser .uwes : (pre, sn) -> unverified witness receipt escrow
    ures,     \* Baser .ures : (pre, sn) -> unverified receipt triples
    vres,     \* Baser .vres : (pre, sn) -> unverified receipt quintuples
    rcts,     \* Baser .rcts : (pre, dig) -> receipt couples
    vrcs,     \* Baser .vrcs : (pre, dig) -> receipt quadruples
    cues,     \* Kevery.cues
    opre,     \* Kevery.opre : own prefix, or NoPre
    local,    \* Kevery.local
    direct,   \* Kevery.direct
    now,      \* wall clock in seconds
    acc,      \* history: pre -> what each first seen acceptance was given
    nmsgs,    \* history: number of inputs so far, messages and clock readings
    pool,     \* history: which family of messages this run feeds
    ims,      \* Parser.ims : the incoming message stream, unit by unit
    gen,      \* the generator Parser.allProcessor: where it stands, its locals
    dispatched, \* history: the messages the parser handed to the Kevery
    framed,   \* Parser.framed
    pipeline  \* Parser.pipeline

vars == <<kevers, evts, kels, fels, sigs, wigs, dtss, aess, pdes, ooes, pses,
          pwes, ldes, uwes, ures, vres, rcts, vrcs, cues, opre, local, direct,
          now, acc, nmsgs, pool, ims, gen, dispatched, framed, pipeline>>

\* the variables of the parser
pvars == <<ims, gen, dispatched, framed, pipeline>>

-----------------------------------------------------------------------------
(* Bounds of the model *)

MaxMsgs == 4

\* inputs of a run that feeds a chain with a recovery
MaxRecovery == 5

-----------------------------------------------------------------------------
(* Values *)

NoPre == ""
NoDig == ""
NoInt == 0 - 1
EmptyN == <<>>
NoCouple == [none |-> TRUE]
NoKever == [none |-> TRUE]

icp == "icp"
rot == "rot"
ixn == "ixn"
dip == "dip"
drt == "drt"

EstOnlyTrait == "EO"
DoNotDelegateTrait == "DND"

Range(s) == {s[j] : j \in 1..Len(s)}

\* OrderedSet(seq): the members of seq in order of first occurrence
oset(s) ==
    LET keep == {j \in 1..Len(s) : \A h \in 1..(j-1) : s[h] # s[j]}
        nth(n) == CHOOSE j \in keep : Cardinality({h \in keep : h < j}) = n - 1
    IN [n \in 1..Cardinality(keep) |-> s[nth(n)]]

\* a - b on ordered sets: a without the members of b, order of a kept
OSetDiff(a, b) == SelectSeq(a, LAMBDA x : x \notin Range(b))

\* a | b on ordered sets: a followed by the members of b not in a
OSetUnion(a, b) == a \o SelectSeq(b, LAMBDA x : x \notin Range(a))

-----------------------------------------------------------------------------
(* Store: maps with put-if-absent, set, insertion ordered duplicates *)

Get(m, k, none) == IF k \in DOMAIN m THEN m[k] ELSE none

\* put: write only when the key is absent
PutVal(m, k, v) == IF k \in DOMAIN m THEN m ELSE m @@ (k :> v)

\* set: overwrite
SetVal(m, k, v) == [x \in DOMAIN m \cup {k} |-> IF x = k THEN v ELSE m[x]]

DelVal(m, k) == [x \in DOMAIN m \ {k} |-> m[x]]

\* add values as duplicates at key, each only once
PutVals(m, k, vs) ==
    LET put(new) == IF new = <<>> THEN m ELSE SetVal(m, k, new)
    IN put(OSetUnion(Get(m, k, <<>>), oset(vs)))

AddIoVal(m, k, v) == PutVals(m, k, <<v>>)

GetIoLast(m, k) ==
    IF k \in DOMAIN m /\ m[k] # <<>> THEN m[k][Len(m[k])] ELSE NoDig

DelIoVal(m, k, v) ==
    IF k \notin DOMAIN m THEN m
    ELSE LET del(rest) == IF rest = <<>> THEN DelVal(m, k) ELSE SetVal(m, k, rest)
         IN del(SelectSeq(m[k], LAMBDA x : x # v))

dgKey(pre, dig) == <<pre, dig>>
snKey(pre, sn) == <<pre, sn>>

-----------------------------------------------------------------------------
(* Primitives of keri.core.coring, from their contracts *)

\* Siger: an indexed signature; it verifies under key and message only
Siger(index, key, msg) == [index |-> index, key |-> key, msg |-> msg]

\* Cigar: a signature that is not indexed, with the verfer it came with
Cigar(verfer, key, msg) == [verfer |-> verfer, key |-> key, msg |-> msg]

\* Verfer.verify(sig, ser)
VerferVerify(verfer, siger, serder) ==
    siger.key = verfer /\ siger.msg = serder.d

\* Verfer.transferable: the witness keys are non-transferable prefixes
VerferTransferable(verfer) ==
    verfer \notin {"W1", "W2", "W3", "W4", "W5", "KN"}

\* Tholder.size of an integer threshold
TholderSize(thold) == thold

\* Tholder.satisfy(indices): m of n over the set of indices
TholderSatisfy(thold, indices) ==
    thold > 0 /\ Cardinality(Range(indices)) >= thold

\* Tholder.limen
Limen(thold) == thold

\* Nexter: digest over (limen, keys); empty when there is no commitment
Nexter(limen, keys) == <<limen>> \o keys

NexterVerify(nexter, limen, keys) == nexter = Nexter(limen, keys)

\* Serder.compare(dig): dig is a digest of this serder's serialisation
SerderCompare(d, dig) == d # NoDig /\ d = dig

-----------------------------------------------------------------------------
(* Identifier prefixes *)

Basic == "basic"          \* transferable, prefix is the inception key
BasicNT == "basicNT"      \* non-transferable, prefix is the key
SelfAddr == "digest"      \* transferable, prefix is the inception digest

Prefixes ==
    [A |-> [code |-> Basic, key |-> "K0", said |-> NoDig],
     N |-> [code |-> BasicNT, key |-> "KN", said |-> NoDig],
     M |-> [code |-> SelfAddr, key |-> "", said |-> "m0"],
     D |-> [code |-> Basic, key |-> "KD0", said |-> NoDig],
     E |-> [code |-> SelfAddr, key |-> "", said |-> "e0"]]

\* rank of a prefix in the byte order of the store's keys
PreRank == [A |-> 1, D |-> 2, E |-> 3, M |-> 4, N |-> 5]

\* Prefixer.transferable
PrefixerTransferable(pre) == Prefixes[pre].code # BasicNT

\* Prefixer.verify(ked, prefixed=True)
PrefixerVerify(pre, ked) ==
    CASE Prefixes[pre].code = Basic ->
            Len(ked.k) = 1 /\ ked.k[1] = Prefixes[pre].key
      [] Prefixes[pre].code = BasicNT ->
            Len(ked.k) = 1 /\ ked.k[1] = Prefixes[pre].key /\ ked.n = EmptyN
      [] OTHER -> ked.d = Prefixes[pre].said

-----------------------------------------------------------------------------
(* Key events: the fields of the key event dict, and d, the event's digest *)

Event(d, i, s, t, p, kt, k, n, bt, b, br, ba, c, a, di) ==
    [d |-> d, i |-> i, s |-> s, t |-> t, p |-> p, kt |-> kt, k |-> k,
     n |-> n, bt |-> bt, b |-> b, br |-> br, ba |-> ba, c |-> c, a |-> a,
     di |-> di]

\* incept(keys, sith, nxt, toad, wits, cnfg), with the sn given
Icp(d, i, s, kt, k, n, bt, b, c) ==
    Event(d, i, s, icp, NoDig, kt, k, n, bt, b, <<>>, <<>>, c, <<>>, NoPre)

\* rotate(pre, keys, dig, sn, sith, nxt, toad, cuts, adds)
Rot(d, i, s, p, kt, k, n, bt, br, ba) ==
    Event(d, i, s, rot, p, kt, k, n, bt, <<>>, br, ba, {}, <<>>, NoPre)

\* interact(pre, dig, sn, data)
Ixn(d, i, s, p, a) ==
    Event(d, i, s, ixn, p, 0, <<>>, EmptyN, 0, <<>>, <<>>, <<>>, {}, a, NoPre)

\* delcept(keys, delpre, sith, nxt, toad, wits, cnfg)
Dip(d, i, s, kt, k, n, bt, b, c, di) ==
    Event(d, i, s, dip, NoDig, kt, k, n, bt, b, <<>>, <<>>, c, <<>>, di)

\* deltate(pre, keys, dig, sn, sith, nxt, toad, cuts, adds)
Drt(d, i, s, p, kt, k, n, bt, br, ba) ==
    Event(d, i, s, drt, p, kt, k, n, bt, <<>>, br, ba, {}, <<>>, NoPre)

\* an event seal: the prefix, sequence number and digest of the sealed event
Seal(i, s, d) == [i |-> i, s |-> s, d |-> d]

N1 == Nexter(1, <<"K1">>)
N2 == Nexter(1, <<"K2">>)
N3 == Nexter(1, <<"K3">>)

\* One controller, one key at a time, no witnesses: the chains a0 r1 y2 q2
\* and a0 x1 x2, events that break a rule each, and a non-transferable prefix
ChainEvents ==
    { Icp("a0", "A", 0, 1, <<"K0">>, N1, 0, <<>>, {}),
      Icp("a0z", "A", 0, 1, <<"K0">>, EmptyN, 0, <<>>, {}),
      Icp("a0s", "A", 1, 1, <<"K0">>, N1, 0, <<>>, {}),
      Rot("r1", "A", 1, "a0", 1, <<"K1">>, N2, 0, <<>>, <<>>),
      Rot("r1k", "A", 1, "a0", 1, <<"K2">>, N3, 0, <<>>, <<>>),
      Rot("r1z", "A", 1, "a0", 1, <<"K1">>, EmptyN, 0, <<>>, <<>>),
      Ixn("x1", "A", 1, "a0", <<>>),
      Ixn("x2", "A", 2, "x1", <<>>),
      Ixn("y2", "A", 2, "r1", <<>>),
      Ixn("y3", "A", 3, "y2", <<>>),
      Rot("r2", "A", 2, "x1", 1, <<"K1">>, N2, 0, <<>>, <<>>),
      Rot("q2", "A", 2, "r1", 1, <<"K2">>, N3, 0, <<>>, <<>>),
      Ixn("x1s", "A", 2, "a0", <<>>),
      Rot("r1s", "A", 2, "a0", 1, <<"K1">>, N2, 0, <<>>, <<>>),
      Ixn("z2", "A", 2, "r1z", <<>>),
      Rot("zr2", "A", 2, "r1z", 1, <<"K2">>, N3, 0, <<>>, <<>>),
      Ixn("x0", "A", 0, "a0", <<>>),
      Ixn("zx1", "A", 1, "a0z", <<>>),
      Icp("n0", "N", 0, 1, <<"KN">>, EmptyN, 0, <<>>, {}),
      Icp("n0t", "N", 0, 1, <<"KN">>, N1, 0, <<>>, {}),
      Rot("nr1", "N", 1, "n0", 1, <<"K1">>, N2, 0, <<>>, <<>>),
      Ixn("nx1", "N", 1, "n0", <<>>) }

\* One controller with three keys and threshold two, rotating to two keys
SigEvents ==
    { Icp("m0", "M", 0, 2, <<"Ka", "Kb", "Kc">>, Nexter(2, <<"Kd", "Ke">>),
          0, <<>>, {}),
      Rot("m1", "M", 1, "m0", 2, <<"Kd", "Ke">>, Nexter(1, <<"Kf">>),
          0, <<>>, <<>>),
      Ixn("mx1", "M", 1, "m0", <<>>),
      Ixn("mx2", "M", 2, "m1", <<>>) }

\* One controller with witnesses W1 W2 W3 and threshold two; rotations that
\* cut and add witnesses, and events that break a witness rule each
WitEvents ==
    { Icp("w0", "A", 0, 1, <<"K0">>, N1, 2, <<"W1", "W2", "W3">>, {}),
      Icp("w0a", "A", 0, 1, <<"K0">>, N1, 0, <<"W1", "W2", "W3">>, {}),
      Icp("w0b", "A", 0, 1, <<"K0">>, N1, 4, <<"W1", "W2", "W3">>, {}),
      Icp("w0c", "A", 0, 1, <<"K0">>, N1, 1, <<>>, {}),
      Icp("w0d", "A", 0, 1, <<"K0">>, N1, 1, <<"W1", "W1">>, {}),
      Rot("wr1", "A", 1, "w0", 1, <<"K1">>, N2, 2, <<"W2">>, <<"W4">>),
      Rot("wr1o", "A", 1, "w0", 1, <<"K1">>, N2, 2, <<"W3", "W1">>,
          <<"W5", "W4">>),
      Rot("wr1e", "A", 1, "w0", 1, <<"K1">>, N2, 0, <<"W1", "W2", "W3">>,
          <<>>),
      Rot("wc1", "A", 1, "w0", 1, <<"K1">>, N2, 2, <<"W5">>, <<>>),
      Rot("wc2", "A", 1, "w0", 1, <<"K1">>, N2, 1, <<"W2", "W2">>, <<>>),
      Rot("wc3", "A", 1, "w0", 1, <<"K1">>, N2, 2, <<>>, <<"W1">>),
      Rot("wc4", "A", 1, "w0", 1, <<"K1">>, N2, 2, <<"W2">>, <<"W2">>),
      Rot("wc5", "A", 1, "w0", 1, <<"K1">>, N2, 2, <<>>, <<"W4", "W4">>),
      Rot("wt1", "A", 1, "w0", 1, <<"K1">>, N2, 0, <<>>, <<>>),
      Rot("wt2", "A", 1, "w0", 1, <<"K1">>, N2, 4, <<>>, <<>>),
      Rot("wt3", "A", 1, "w0", 1, <<"K1">>, N2, 1, <<"W1", "W2", "W3">>,
          <<>>),
      Ixn("wx1", "A", 1, "w0", <<>>) }

\* A delegator D and its delegate E: D seals the inception and the rotation of
\* E in one interaction event; a delegator that does not delegate, and a seal
\* of another digest
DelSeals == <<Seal("E", 0, "e0"), Seal("E", 1, "e1")>>

DelEvents ==
    { Icp("d0", "D", 0, 1, <<"KD0">>, Nexter(1, <<"KD1">>), 0, <<>>, {}),
      Icp("d0n", "D", 0, 1, <<"KD0">>, Nexter(1, <<"KD1">>), 0, <<>>,
          {DoNotDelegateTrait}),
      Ixn("dx1", "D", 1, "d0", DelSeals),
      Ixn("dx1n", "D", 1, "d0n", DelSeals),
      Ixn("dx1b", "D", 1, "d0", <<Seal("E", 0, "e1"), Seal("E", 1, "e0"),
                                   Seal("D", 0, "e0")>>),
      Dip("e0", "E", 0, 1, <<"KE0">>, Nexter(1, <<"KE1">>), 0, <<>>, {}, "D"),
      Drt("e1", "E", 1, "e0", 1, <<"KE1">>, Nexter(1, <<"KE2">>), 0, <<>>,
          <<>>),
      Rot("er1", "E", 1, "e0", 1, <<"KE1">>, Nexter(1, <<"KE2">>), 0, <<>>,
          <<>>),
      Ixn("dx2", "D", 2, "dx1", <<Seal("E", 1, "e1")>>) }

\* a rotation of M after m1 to the single key m1 commits to
ShrinkEvents ==
    { Rot("m2", "M", 2, "m1", 1, <<"Kf">>, Nexter(1, <<"Kg">>),
          0, <<>>, <<>>) }

AllEvents ==
    ChainEvents \cup SigEvents \cup WitEvents \cup DelEvents
        \cup ShrinkEvents

Digs == {e.d : e \in AllEvents}

EventOf == [d \in Digs |-> CHOOSE e \in AllEvents : e.d = d]

\* Serder(raw=raw): the event a serialisation holds
Serder(raw) == CHOOSE e \in AllEvents : e.d = raw

\* a message: an event with attached controller and witness signatures and
\* an optional authorizer couple (seqner, diger)
Msg(d, sigers, wigers, seqner, diger) ==
    [serder |-> Serder(d), sigers |-> sigers, wigers |-> wigers,
     seqner |-> seqner, diger |-> diger]

\* event d signed by keys, the j-th key signing with index j - 1
Signed(d, keys) ==
    Msg(d, [j \in 1..Len(keys) |-> Siger(j - 1, keys[j], d)], <<>>,
        NoInt, NoDig)

\* event d with the signatures sg and witness signatures wg, each given
\* as the pairs (index, key)
Attached(d, sg, wg) ==
    Msg(d, [j \in 1..Len(sg) |-> Siger(sg[j][1], sg[j][2], d)],
        [j \in 1..Len(wg) |-> Siger(wg[j][1], wg[j][2], d)],
        NoInt, NoDig)

SigMsgs ==
    { Attached("m0", <<<<0, "Ka">>>>, <<>>),
      Attached("m0", <<<<1, "Kb">>>>, <<>>),
      Attached("m0", <<<<0, "Ka">>, <<0, "Ka">>>>, <<>>),
      Attached("m0", <<<<0, "Ka">>, <<1, "Kb">>>>, <<>>),
      Attached("m0", <<<<0, "Ka">>, <<0, "Ka">>, <<1, "Kb">>>>, <<>>),
      Attached("m0", <<<<0, "Ka">>, <<1, "Ka">>>>, <<>>),
      Attached("m0", <<<<0, "Kb">>>>, <<>>),
      Attached("m0", <<<<3, "Ka">>>>, <<>>),
      Attached("m0", <<<<2, "Kc">>>>, <<>>),
      Msg("m0", <<Siger(0, "Ka", "m0"), Siger(1, "Kb", "mx1")>>, <<>>,
          NoInt, NoDig),
      Attached("mx1", <<<<0, "Ka">>>>, <<>>),
      Attached("mx1", <<<<2, "Kc">>>>, <<>>),
      Attached("mx1", <<<<0, "Ka">>, <<0, "Ka">>>>, <<>>),
      Attached("mx1", <<<<0, "Ka">>, <<1, "Kb">>>>, <<>>),
      Attached("m1", <<<<0, "Kd">>>>, <<>>),
      Attached("m1", <<<<1, "Ke">>>>, <<>>),
      Attached("m1", <<<<0, "Kd">>, <<0, "Kd">>>>, <<>>),
      Attached("m1", <<<<0, "Ka">>, <<1, "Kb">>>>, <<>>),
      Attached("mx2", <<<<0, "Kd">>, <<1, "Ke">>>>, <<>>),
      Attached("mx2", <<<<0, "Ka">>, <<1, "Kb">>>>, <<>>) }

WitMsgs ==
    { Attached("w0", <<<<0, "K0">>>>, <<>>),
      Attached("w0", <<<<0, "K0">>>>, <<<<0, "W1">>>>),
      Attached("w0", <<<<0, "K0">>>>, <<<<1, "W2">>>>),
      Attached("w0", <<<<0, "K0">>>>, <<<<0, "W1">>, <<1, "W2">>>>),
      Attached("w0", <<<<0, "K0">>>>, <<<<0, "W1">>, <<0, "W1">>>>),
      Attached("w0", <<<<0, "K0">>>>, <<<<0, "W2">>>>),
      Attached("w0a", <<<<0, "K0">>>>, <<<<0, "W1">>, <<1, "W2">>>>),
      Attached("w0b", <<<<0, "K0">>>>, <<<<0, "W1">>, <<1, "W2">>>>),
      Attached("w0c", <<<<0, "K0">>>>, <<>>),
      Attached("w0d", <<<<0, "K0">>>>, <<<<0, "W1">>>>),
      Attached("wr1", <<<<0, "K1">>>>, <<>>),
      Attached("wr1", <<<<0, "K1">>>>, <<<<0, "W1">>, <<1, "W3">>>>),
      Attached("wr1", <<<<0, "K1">>>>, <<<<0, "W1">>>>),
      Attached("wr1", <<<<0, "K1">>>>, <<<<2, "W4">>>>),
      Attached("wr1", <<<<0, "K1">>>>, <<<<0, "W1">>, <<1, "W2">>>>),
      Attached("wr1o", <<<<0, "K1">>>>, <<<<0, "W2">>, <<1, "W5">>>>),
      Attached("wr1e", <<<<0, "K1">>>>, <<>>),
      Attached("wc1", <<<<0, "K1">>>>, <<<<0, "W1">>, <<1, "W2">>>>),
      Attached("wc2", <<<<0, "K1">>>>, <<<<0, "W1">>, <<1, "W3">>>>),
      Attached("wc3", <<<<0, "K1">>>>, <<<<0, "W1">>, <<1, "W2">>>>),
      Attached("wc4", <<<<0, "K1">>>>, <<<<0, "W1">>, <<1, "W3">>>>),
      Attached("wc5", <<<<0, "K1">>>>, <<<<0, "W1">>, <<1, "W2">>>>),
      Attached("wt1", <<<<0, "K1">>>>, <<<<0, "W1">>, <<1, "W2">>>>),
      Attached("wt2", <<<<0, "K1">>>>, <<<<0, "W1">>, <<1, "W2">>>>),
      Attached("wt3", <<<<0, "K1">>>>, <<>>),
      Attached("wx1", <<<<0, "K0">>>>, <<>>),
      Attached("wx1", <<<<0, "K0">>>>, <<<<0, "W1">>>>),
      Attached("wx1", <<<<0, "K0">>>>, <<<<0, "W1">>, <<1, "W2">>>>) }

\* the events of M up to the rotation to one key, fully and partly signed
ShrinkMsgs ==
    { Attached("m0", <<<<0, "Ka">>, <<1, "Kb">>>>, <<>>),
      Attached("m0", <<<<0, "Ka">>>>, <<>>),
      Attached("m1", <<<<0, "Kd">>, <<1, "Ke">>>>, <<>>),
      Attached("m1", <<<<0, "Kd">>>>, <<>>),
      Attached("mx1", <<<<0, "Ka">>, <<1, "Kb">>>>, <<>>),
      Attached("mx2", <<<<0, "Kd">>, <<1, "Ke">>>>, <<>>),
      Attached("m2", <<<<0, "Kf">>>>, <<>>),
      Attached("m2", <<<<0, "Kd">>>>, <<>>) }

ChainMsgs ==
    { Signed("a0", <<"K0">>), Signed("a0", <<>>), Signed("a0", <<"K1">>),
      Signed("a0z", <<"K0">>), Signed("a0s", <<"K0">>),
      Signed("r1", <<"K1">>), Signed("r1", <<"K0">>),
      Signed("r1k", <<"K2">>), Signed("r1z", <<"K1">>),
      Signed("x1", <<"K0">>), Signed("x1", <<"K1">>),
      Signed("x2", <<"K0">>), Signed("y2", <<"K1">>),
      Signed("r2", <<"K1">>), Signed("q2", <<"K2">>),
      Signed("x1s", <<"K0">>), Signed("r1s", <<"K1">>),
      Signed("z2", <<"K1">>), Signed("zr2", <<"K2">>),
      Signed("x0", <<"K0">>), Signed("zx1", <<"K0">>),
      Signed("n0", <<"KN">>), Signed("n0t", <<"KN">>),
      Signed("nr1", <<"K1">>), Signed("nx1", <<"KN">>) }

\* delegated event d signed by keys, with the authorizer couple attached
Delegated(d, keys, seqner, diger) ==
    [Signed(d, keys) EXCEPT !.seqner = seqner, !.diger = diger]

DelMsgs ==
    { Signed("d0", <<"KD0">>), Signed("d0n", <<"KD0">>),
      Signed("dx1", <<"KD0">>), Signed("dx1n", <<"KD0">>),
      Signed("dx1b", <<"KD0">>),
      Delegated("e0", <<"KE0">>, 1, "dx1"),
      Delegated("e0", <<"KE0">>, 1, "dx1b"),
      Delegated("e0", <<"KE0">>, 1, "dx1n"),
      Delegated("e0", <<"KE0">>, 2, "dx1"),
      Signed("e0", <<"KE0">>),
      Delegated("e1", <<"KE1">>, 1, "dx1"),
      Delegated("e1", <<"KE1">>, 1, "dx1b"),
      Delegated("e1", <<"KE1">>, 2, "dx2"),
      Signed("dx2", <<"KD0">>),
      Signed("er1", <<"KE1">>) }

\* receipt(pre, sn, dig) with attached witness signatures, each given as the
\* pair (index, key), made on the receipted event dig
Rct(pre, sn, dig, wg) ==
    [i |-> pre, s |-> sn, d |-> dig,
     wigers |-> [j \in 1..Len(wg) |-> Siger(wg[j][1], wg[j][2], dig)]]

\* the witnessed inception w0 and interaction wx1, and receipts of them
ReceiptedMsgs ==
    { Attached("w0", <<<<0, "K0">>>>, <<>>),
      Attached("w0", <<<<0, "K0">>>>, <<<<0, "W1">>>>),
      Attached("w0", <<<<0, "K0">>>>, <<<<0, "W1">>, <<1, "W2">>>>),
      Attached("wx1", <<<<0, "K0">>>>, <<>>) }

RctMsgs ==
    { Rct("A", 0, "w0", <<<<2, "W3">>>>),
      Rct("A", 0, "w0", <<<<1, "W2">>>>),
      Rct("A", 0, "w0", <<<<0, "W2">>>>),
      Rct("A", 0, "w0", <<<<5, "W1">>>>),
      Rct("A", 0, "w0a", <<<<0, "W1">>>>),
      Rct("A", 1, "wx1", <<<<0, "W1">>, <<1, "W2">>>>) }

\* a receipt message with attached couples: dig is the digest of the
\* receipt message itself, d the digest of the receipted event it names
Receipt(dig, pre, sn, d, cigars) ==
    [dig |-> dig, i |-> pre, s |-> sn, d |-> d, cigars |-> cigars]

\* a transferable indexed signature group: the seal (i, s, d) of the
\* receipter's establishment event and the receipter's signatures
Tsg(i, s, d, sigers) == [i |-> i, s |-> s, d |-> d, sigers |-> sigers]

\* a receipt message with attached transferable signature groups
ReceiptTrans(dig, pre, sn, d, tsgs) ==
    [dig |-> dig, i |-> pre, s |-> sn, d |-> d, tsgs |-> tsgs]

\* the events of a run of receipts: the inception a0 of A, the witnessed
\* inception w0 of A with two, one and no witness signature, the interaction
\* x1 of A, the receipter D with d0 and dx1, and m0 with one signature of two
RcMsgs ==
    { Signed("a0", <<"K0">>),
      Attached("w0", <<<<0, "K0">>>>, <<<<0, "W1">>, <<1, "W2">>>>),
      Attached("w0", <<<<0, "K0">>>>, <<<<0, "W1">>>>),
      Signed("x1", <<"K0">>),
      Signed("d0", <<"KD0">>),
      Signed("dx1", <<"KD0">>),
      Attached("m0", <<<<0, "Ka">>>>, <<>>) }

\* receipts of a0, w0 and x1 with couples: of a witness, of another
\* receipter, of both, with a signature of another key, with a transferable
\* verfer
RcCouples ==
    { Receipt("c1", "A", 0, "w0", <<Cigar("W1", "W1", "w0")>>),
      Receipt("c2", "A", 0, "w0", <<Cigar("W3", "W3", "w0"),
                                    Cigar("W4", "W4", "w0")>>),
      Receipt("c3", "A", 0, "a0", <<Cigar("W1", "W1", "a0")>>),
      Receipt("c4", "A", 0, "a0", <<Cigar("W1", "W2", "a0"),
                                    Cigar("K0", "K0", "a0")>>),
      Receipt("c5", "A", 1, "x1", <<Cigar("W4", "W4", "x1")>>) }

\* receipts of a0 and x1 by the receipter D: at its inception d0, at a
\* sequence number where D has no event or an interaction, naming w0 over a
\* signature of a0, with a signature index out of range
RcGroups ==
    { ReceiptTrans("v1", "A", 0, "a0",
                   <<Tsg("D", 0, "d0", <<Siger(0, "KD0", "a0")>>)>>),
      ReceiptTrans("v2", "A", 0, "a0",
                   <<Tsg("D", 1, "dr1", <<Siger(0, "KD1", "a0")>>)>>),
      ReceiptTrans("v3", "A", 0, "w0",
                   <<Tsg("D", 0, "d0", <<Siger(0, "KD0", "a0")>>)>>),
      ReceiptTrans("v4", "A", 1, "x1",
                   <<Tsg("D", 0, "d0", <<Siger(0, "KD0", "x1"),
                                         Siger(1, "KD0", "x1")>>)>>) }

\* a receipt quadruple: the receipter, sequence number and digest of its
\* establishment event, and its signature
Trq(i, s, sd, siger) == [i |-> i, s |-> s, sd |-> sd, siger |-> siger]

\* the event d signed with keys, with receipt couples and quadruples attached
Replay(d, keys, cigars, trqs) ==
    [serder |-> Signed(d, keys).serder, sigers |-> Signed(d, keys).sigers,
     wigers |-> <<>>, seqner |-> NoInt, diger |-> NoDig,
     cigars |-> cigars, trqs |-> trqs]

\* events of A and D replayed with receipts attached: a couple of W4, a
\* quadruple of D at its inception; x1 also signed with a key that is not
\* A's, a0 also without signature
ReplayMsgs ==
    { Replay("a0", <<"K0">>, <<Cigar("W4", "W4", "a0")>>, <<>>),
      Replay("a0", <<"K0">>, <<>>,
             <<Trq("D", 0, "d0", Siger(0, "KD0", "a0"))>>),
      Replay("a0", <<>>, <<Cigar("W4", "W4", "a0")>>, <<>>),
      Replay("x1", <<"K0">>, <<Cigar("W4", "W4", "x1")>>,
             <<Trq("D", 0, "d0", Siger(0, "KD0", "x1"))>>),
      Replay("x1", <<"K1">>, <<Cigar("W4", "W4", "x1")>>, <<>>),
      Replay("x2", <<"K0">>, <<Cigar("W3", "W3", "x2")>>, <<>>),
      Replay("d0", <<"KD0">>, <<>>, <<>>) }

\* a chain with a recovery: a0 r1 y2 y3, then q2 rotating over y2 and y3
RecoveryMsgs ==
    { Signed("a0", <<"K0">>), Signed("r1", <<"K1">>), Signed("y2", <<"K1">>),
      Signed("y3", <<"K1">>), Signed("q2", <<"K2">>), Signed("x1", <<"K0">>) }

-----------------------------------------------------------------------------
(* Errors (keri.kering) *)

Ok == "ok"
ValidationError == "ValidationError"
ValueError == "ValueError"
OtherError == "Exception"     \* AttributeError, TypeError: not a ValidationError
OutOfOrderError == "OutOfOrderError"
MissingSignatureError == "MissingSignatureError"
MissingWitnessSignatureError == "MissingWitnessSignatureError"
MissingDelegationError == "MissingDelegationError"
LikelyDuplicitousError == "LikelyDuplicitousError"
UnverifiedWitnessReceiptError == "UnverifiedWitnessReceiptError"
UnverifiedReceiptError == "UnverifiedReceiptError"
UnverifiedTransferableReceiptError == "UnverifiedTransferableReceiptError"

\* a validateSN that takes any sequence number
validateSNAny(sn, inceptive) == Ok

\* validateSN(sn, inceptive): sn is given as its int value
validateSN(sn, inceptive) ==
    IF inceptive
    THEN (IF sn # 0 THEN ValidationError ELSE Ok)
    ELSE (IF sn < 1 THEN ValidationError ELSE Ok)

\* a verifySigs that takes every signature whose index is in range as verified
verifySigsAll(serder, sigers, verfers) ==
    LET unique(usigers) ==
            IF \E j \in 1..Len(usigers) : usigers[j].index >= Len(verfers)
            THEN [err |-> ValidationError, sigers |-> <<>>, indices |-> <<>>]
            ELSE [err |-> Ok, sigers |-> usigers,
                  indices |-> [j \in 1..Len(usigers) |-> usigers[j].index]]
    IN unique(oset(sigers))

\* verifySigs(serder, sigers, verfers)
verifySigs(serder, sigers, verfers) ==
    LET verified(vsigers) ==
            [err |-> Ok, sigers |-> vsigers,
             indices |-> [j \in 1..Len(vsigers) |-> vsigers[j].index]]
        unique(usigers) ==
            IF \E j \in 1..Len(usigers) : usigers[j].index >= Len(verfers)
            THEN [err |-> ValidationError, sigers |-> <<>>, indices |-> <<>>]
            ELSE verified(SelectSeq(usigers,
                   LAMBDA sg : VerferVerify(verfers[sg.index + 1], sg, serder)))
    IN unique(oset(sigers))

-----------------------------------------------------------------------------
(* Kever *)

\* a Kever that always counts as transferable
KeverTransferableAlways(kv) == TRUE

\* Kever.transferable
KeverTransferable(kv) ==
    kv.nexter # EmptyN /\ PrefixerTransferable(kv.prefixer)

\* Kever.incept: the witness threshold against the witnesses
InceptToad(wits, toad) ==
    IF wits # <<>>
    THEN (IF toad < 1 \/ toad > Len(wits) THEN ValidationError ELSE Ok)
    ELSE (IF toad # 0 THEN ValidationError ELSE Ok)

\* Kever.incept: the key state an inception event sets, or the error raised
KeverIncept(serder) ==
    LET toad == serder.bt
        err ==
          IF Len(serder.k) < TholderSize(serder.kt) THEN ValidationError
          ELSE IF ~PrefixerVerify(serder.i, serder) THEN ValidationError
          ELSE IF validateSN(serder.s, TRUE) # Ok THEN ValidationError
          ELSE IF ~PrefixerTransferable(serder.i) /\ serder.n # EmptyN
               THEN ValidationError
          ELSE IF Len(oset(serder.b)) # Len(serder.b) THEN ValidationError
          ELSE InceptToad(serder.b, toad)
    IN [err |-> err,
        kv |-> [prefixer |-> serder.i, sn |-> serder.s, fn |-> NoInt,
                serder |-> serder.d, ilk |-> serder.t,
                tholder |-> serder.kt, verfers |-> serder.k,
                nexter |-> serder.n, toad |-> toad, wits |-> serder.b,
                cuts |-> <<>>, adds |-> <<>>,
                estOnly |-> FALSE, doNotDelegate |-> FALSE,
                lastEst |-> [s |-> serder.s, d |-> serder.d],
                delegated |-> FALSE, delegator |-> NoPre]]

\* Kever.config, with the class defaults EstOnly = DoNotDelegate = False
KeverConfig(kv, serder) ==
    [kv EXCEPT !.estOnly = EstOnlyTrait \in serder.c,
               !.doNotDelegate = DoNotDelegateTrait \in serder.c]

\* Kever.escrowPSEvent without the putSigs of the verified signatures
escrowPSEventUnsigned(S, serder, sigers, wigers) ==
    LET dgkey == dgKey(serder.i, serder.d)
    IN [S EXCEPT !.dtss = PutVal(@, dgkey, now),
                 !.wigs = IF wigers # <<>> THEN PutVals(@, dgkey, wigers) ELSE @,
                 !.evts = PutVal(@, dgkey, serder.d),
                 !.pses = AddIoVal(@, snKey(serder.i, serder.s), serder.d)]

\* Kever.escrowPSEvent
escrowPSEvent(S, serder, sigers, wigers) ==
    LET dgkey == dgKey(serder.i, serder.d)
    IN [S EXCEPT !.dtss = PutVal(@, dgkey, now),
                 !.sigs = PutVals(@, dgkey, sigers),
                 !.wigs = IF wigers # <<>> THEN PutVals(@, dgkey, wigers) ELSE @,
                 !.evts = PutVal(@, dgkey, serder.d),
                 !.pses = AddIoVal(@, snKey(serder.i, serder.s), serder.d)]

\* Kever.escrowPACouple that writes no couple
escrowPACoupleNone(S, serder, seqner, diger) == S

\* Kever.escrowPACouple
escrowPACouple(S, serder, seqner, diger) ==
    [S EXCEPT !.pdes = PutVal(@, dgKey(serder.i, serder.d),
                              [s |-> seqner, d |-> diger])]

\* Kever.escrowPWEvent
escrowPWEvent(S, serder, wigers, sigers) ==
    LET dgkey == dgKey(serder.i, serder.d)
    IN [S EXCEPT !.dtss = PutVal(@, dgkey, now),
                 !.wigs = PutVals(@, dgkey, wigers),
                 !.sigs = IF sigers # <<>> THEN PutVals(@, dgkey, sigers) ELSE @,
                 !.evts = PutVal(@, dgkey, serder.d),
                 !.pwes = AddIoVal(@, snKey(serder.i, serder.s), serder.d)]

\* Baser.appendFe: the ordinal the next first seen entry gets
NextFn(fel, pre) == Len(Get(fel, pre, <<>>))

AppendFe(fel, pre, dig) == SetVal(fel, pre, Append(Get(fel, pre, <<>>), dig))

\* a logEvent that appends to the first seen log whatever first says
logEventAlways(S, kv, serder, sigers, wigers, first, seqner, diger) ==
    LET dgkey == dgKey(kv.prefixer, kv.serder)
    IN [S |-> [S EXCEPT
                 !.dtss = SetVal(@, dgkey, now),
                 !.sigs = IF sigers # <<>> THEN PutVals(@, dgkey, sigers) ELSE @,
                 !.wigs = IF wigers # <<>> THEN PutVals(@, dgkey, wigers) ELSE @,
                 !.evts = PutVal(@, dgkey, serder.d),
                 !.fels = AppendFe(@, kv.prefixer, kv.serder),
                 !.kels = AddIoVal(@, snKey(kv.prefixer, kv.sn), kv.serder)],
        fn |-> NextFn(S.fels, kv.prefixer)]

\* a logEvent that keeps one digest for each sequence number of the KEL
logEventReplace(S, kv, serder, sigers, wigers, first, seqner, diger) ==
    LET lg == logEventAlways(S, kv, serder, sigers, wigers, first, seqner, diger)
    IN [lg EXCEPT !.S.kels = SetVal(S.kels, snKey(kv.prefixer, kv.sn),
                                    <<kv.serder>>)]

\* a logEvent that puts the digest before the others of its sequence number
logEventFront(S, kv, serder, sigers, wigers, first, seqner, diger) ==
    LET key == snKey(kv.prefixer, kv.sn)
        front(lg) ==
            [lg EXCEPT !.S.kels =
                SetVal(S.kels, key,
                       <<kv.serder>> \o SelectSeq(Get(S.kels, key, <<>>),
                                                  LAMBDA x : x # kv.serder))]
    IN front(logEventAlways(S, kv, serder, sigers, wigers, first, seqner, diger))

\* a logEvent that adds the digest to the KEL index even when it is there
logEventAgain(S, kv, serder, sigers, wigers, first, seqner, diger) ==
    LET key == snKey(kv.prefixer, kv.sn)
        again(lg) ==
            [lg EXCEPT !.S.fels = IF first THEN @ ELSE S.fels,
                       !.S.kels = SetVal(S.kels, key,
                                         Append(Get(S.kels, key, <<>>),
                                                kv.serder))]
    IN again(logEventAlways(S, kv, serder, sigers, wigers, first, seqner, diger))

\* Kever.logEvent, self being kv (already advanced to serder by the caller)
logEvent(S, kv, serder, sigers, wigers, first, seqner, diger) ==
    LET dgkey == dgKey(kv.prefixer, kv.serder)
        seen(S1) ==
            IF first
            THEN [S1 EXCEPT
                    !.aess = IF seqner # NoInt /\ diger # NoDig
                             THEN SetVal(@, dgkey, [s |-> seqner, d |-> diger])
                             ELSE @,
                    !.fels = AppendFe(@, kv.prefixer, kv.serder),
                    !.dtss = SetVal(@, dgkey, now),
                    !.kels = AddIoVal(@, snKey(kv.prefixer, kv.sn), kv.serder)]
            ELSE [S1 EXCEPT
                    !.kels = AddIoVal(@, snKey(kv.prefixer, kv.sn), kv.serder)]
    IN [S |-> seen([S EXCEPT
                 !.dtss = PutVal(@, dgkey, now),
                 !.sigs = IF sigers # <<>> THEN PutVals(@, dgkey, sigers) ELSE @,
                 !.wigs = IF wigers # <<>> THEN PutVals(@, dgkey, wigers) ELSE @,
                 !.evts = PutVal(@, dgkey, serder.d)]),
        fn |-> IF first THEN NextFn(S.fels, kv.prefixer) ELSE NoInt]

Raise(S, err) == [S |-> S, err |-> err]

\* a validateDelegation that takes the delegator's word for granted
validateDelegationAny(S, kv, serder, sigers, wigers, seqner, diger) ==
    [S |-> S, err |-> Ok,
     delegator |-> IF serder.t = dip THEN serder.di
                   ELSE IF serder.t = drt THEN kv.delegator
                   ELSE NoPre]

\* Kever.validateDelegation
validateDelegation(S, kv, serder, sigers, wigers, seqner, diger) ==
    LET delegator == IF serder.t = dip THEN serder.di ELSE kv.delegator
        out(S1, err, dg) == [S |-> S1, err |-> err, delegator |-> dg]
        sealed(dserder) ==
            IF ~SerderCompare(dserder.d, diger)
            THEN out(S, ValidationError, NoPre)
            ELSE IF S.kevers[delegator] = NoKever
                 THEN out(S, ValidationError, NoPre)
            ELSE IF S.kevers[delegator].doNotDelegate
                 THEN out(S, ValidationError, NoPre)
            ELSE IF ~\E j \in 1..Len(dserder.a) :
                        /\ dserder.a[j].i = serder.i
                        /\ dserder.a[j].s = serder.s
                        /\ SerderCompare(serder.d, dserder.a[j].d)
                 THEN out(S, ValidationError, NoPre)
            ELSE out(S, Ok, delegator)
        found(draw) ==
            IF draw = NoDig THEN out(S, ValidationError, NoPre)
            ELSE sealed(Serder(draw))
        looked(ddig) ==
            IF ddig = NoDig
            THEN IF validateSN(serder.s, serder.t \in {icp, dip}) # Ok
                 THEN out(S, ValidationError, NoPre)
                 ELSE out(escrowPACouple(
                              escrowPSEvent(S, serder, sigers, wigers),
                              serder, seqner, diger),
                          MissingDelegationError, NoPre)
            ELSE found(Get(S.evts, dgKey(delegator, ddig), NoDig))
    IN IF serder.t \notin {dip, drt} THEN out(S, Ok, NoPre)
       ELSE IF seqner = NoInt \/ delegator = NoPre THEN out(S, OtherError, NoPre)
       ELSE IF validateSN(seqner, FALSE) # Ok THEN out(S, ValidationError, NoPre)
       ELSE looked(GetIoLast(S.kels, snKey(delegator, seqner)))

\* a node that never asks for the witness threshold
MustWitnessNever(wits) == FALSE

\* Kever.valSigsDelWigs: whether this node must see the witness threshold
\* met: it has no prefix of its own, or is nonlocal and not itself a witness
MustWitness(wits) ==
    \/ (wits # <<>> /\ opre = NoPre)
    \/ (wits # <<>> /\ ~local /\ opre # NoPre /\ opre \notin Range(wits))

\* Kever.valSigsDelWigs, self being kv
valSigsDelWigs(S, kv, serder, sigers, verfers, tholder, wigers, toad, wits, seqner, diger) ==
    LET bad(S1, err) == [S |-> S1, err |-> err, sigers |-> <<>>,
                         delegator |-> NoPre, wigers |-> <<>>]
        escrowed(PS) ==
            IF seqner # NoInt /\ diger # NoDig
            THEN escrowPACouple(PS, serder, seqner, diger)
            ELSE PS
        delegated(vs, vw, vd) ==
            IF vd.err # Ok THEN bad(vd.S, vd.err)
            ELSE IF MustWitness(wits)
                 THEN IF toad < 0 \/ Len(wits) < toad
                      THEN bad(S, ValidationError)
                      ELSE IF Len(vw.indices) < toad
                           THEN bad(escrowPWEvent(S, serder, vw.sigers, vs.sigers),
                                    MissingWitnessSignatureError)
                           ELSE [S |-> S, err |-> Ok, sigers |-> vs.sigers,
                                 delegator |-> vd.delegator,
                                 wigers |-> vw.sigers]
            ELSE [S |-> S, err |-> Ok, sigers |-> vs.sigers,
                  delegator |-> vd.delegator, wigers |-> vw.sigers]
        verified(vs, vw) ==
            IF vs.err # Ok THEN bad(S, vs.err)
            ELSE IF vw.err # Ok THEN bad(S, vw.err)
            ELSE IF vs.indices = <<>> THEN bad(S, ValidationError)
            ELSE IF ~TholderSatisfy(tholder, vs.indices)
                 THEN bad(escrowed(escrowPSEvent(S, serder, vs.sigers, vw.sigers)),
                          MissingSignatureError)
            ELSE delegated(vs, vw,
                           validateDelegation(S, kv, serder, vs.sigers,
                                              vw.sigers, seqner, diger))
    IN IF Len(verfers) < TholderSize(kv.tholder) THEN bad(S, ValidationError)
       ELSE verified(verifySigs(serder, sigers, verfers),
                     verifySigs(serder, wigers, wits))

\* Kever.__init__: the state and the new Kever, or the error raised
KeverInit(S, serder, sigers, wigers, seqner, diger) ==
    LET logged(kv1, lg) == [S |-> lg.S, err |-> Ok, kv |-> [kv1 EXCEPT !.fn = lg.fn]]
        valid(kv1, v) ==
            logged(kv1, logEvent(v.S, kv1, serder, v.sigers, v.wigers, TRUE,
                                 seqner, diger))
        validated(kv0, v) ==
            IF v.err # Ok THEN [S |-> v.S, err |-> v.err, kv |-> NoKever]
            ELSE valid([kv0 EXCEPT !.delegator = v.delegator,
                                   !.delegated = (v.delegator # NoPre)], v)
        configured(kv0) ==
            validated(kv0,
                      valSigsDelWigs(S, kv0, serder, sigers, serder.k,
                                     kv0.tholder, wigers, kv0.toad, kv0.wits,
                                     seqner, diger))
        incepted(inc) ==
            IF inc.err # Ok THEN [S |-> S, err |-> inc.err, kv |-> NoKever]
            ELSE configured(KeverConfig(inc.kv, serder))
    IN IF serder.t \notin {icp, dip}
       THEN [S |-> S, err |-> ValidationError, kv |-> NoKever]
       ELSE incepted(KeverIncept(serder))

\* a rotation that takes a recovery whatever its prior digest
RotateChainAny(S, kv, serder, sn) ==
    IF sn > kv.sn + 1 THEN ValidationError
    ELSE IF sn <= kv.sn
         THEN IF sn <= kv.lastEst.s THEN ValidationError
              ELSE IF kv.ilk # ixn THEN ValidationError
              ELSE Ok
    ELSE IF ~SerderCompare(kv.serder, serder.p) THEN ValidationError
    ELSE Ok

\* Kever.rotate: the event's place in the chain, for a new event after the
\* current one or a recovery rotation over interaction events
RotateChain(S, kv, serder, sn) ==
    LET pre == serder.i
        dig == serder.p
        prior(praw) ==
            IF praw = NoDig THEN ValidationError
            ELSE IF ~SerderCompare(Serder(praw).d, dig) THEN ValidationError
            ELSE Ok
        recover(pdig) ==
            IF pdig = NoDig THEN ValidationError
            ELSE prior(Get(S.evts, dgKey(pre, pdig), NoDig))
    IN IF sn > kv.sn + 1 THEN ValidationError
       ELSE IF sn <= kv.sn
            THEN IF sn <= kv.lastEst.s THEN ValidationError
                 ELSE IF kv.ilk # ixn THEN ValidationError
                 ELSE recover(GetIoLast(S.kels, snKey(pre, sn - 1)))
       ELSE IF ~SerderCompare(kv.serder, dig) THEN ValidationError
       ELSE Ok

\* a rotation that takes any keys, whatever was committed to
RotateKeysAny(kv, serder) ==
    IF kv.nexter = EmptyN THEN ValidationError
    ELSE IF Len(serder.k) < TholderSize(serder.kt) THEN ValidationError
    ELSE Ok

\* Kever.rotate: the keys and threshold against the next key commitment
RotateKeys(kv, serder) ==
    IF kv.nexter = EmptyN THEN ValidationError
    ELSE IF Len(serder.k) < TholderSize(serder.kt) THEN ValidationError
    ELSE IF ~NexterVerify(kv.nexter, Limen(serder.kt), serder.k)
         THEN ValidationError
    ELSE Ok

\* a rotation that takes any cuts and adds
RotateCutsAddsAny(kv, cuts, adds) == Ok

\* Kever.rotate: the cuts and adds against the witnesses in force
RotateCutsAdds(kv, cuts, adds) ==
    IF Len(oset(cuts)) # Len(cuts) THEN ValidationError
    ELSE IF \E j \in 1..Len(cuts) : cuts[j] \notin Range(kv.wits)
         THEN ValidationError
    ELSE IF Len(oset(adds)) # Len(adds) THEN ValidationError
    ELSE IF Range(cuts) \cap Range(adds) # {} THEN ValidationError
    ELSE IF Range(kv.wits) \cap Range(adds) # {} THEN ValidationError
    ELSE Ok

\* a rotation that puts the adds before the witnesses that remain
RotateWitsAddsFirst(kv, cuts, adds) ==
    OSetUnion(oset(adds), OSetDiff(oset(kv.wits), oset(cuts)))

\* Kever.rotate: wits = list((witset - cutset) | addset)
RotateWits(kv, cuts, adds) ==
    OSetUnion(OSetDiff(oset(kv.wits), oset(cuts)), oset(adds))

\* a rotation that takes any witness threshold
RotateToadAny(wits, toad) == Ok

\* Kever.rotate: the witness threshold against the new witnesses
RotateToad(wits, toad) ==
    IF wits # <<>>
    THEN (IF toad < 1 \/ toad > Len(wits) THEN ValidationError ELSE Ok)
    ELSE (IF toad # 0 THEN ValidationError ELSE Ok)

\* Kever.rotate: the values the rotation sets, or the error raised
KeverRotate(S, kv, serder, sn) ==
    LET cuts == serder.br
        adds == serder.ba
        toad == serder.bt
        rotated(err, wits) ==
            [err |-> err, tholder |-> serder.kt, toad |-> toad, wits |-> wits,
             cuts |-> cuts, adds |-> adds]
        witnessed(wits) ==
            IF RotateCutsAdds(kv, cuts, adds) # Ok
            THEN rotated(ValidationError, wits)
            ELSE IF Len(wits) # Len(kv.wits) - Len(cuts) + Len(adds)
                 THEN rotated(ValidationError, wits)
            ELSE rotated(RotateToad(wits, toad), wits)
    IN IF RotateChain(S, kv, serder, sn) # Ok THEN rotated(ValidationError, <<>>)
       ELSE IF RotateKeys(kv, serder) # Ok THEN rotated(ValidationError, <<>>)
       ELSE witnessed(RotateWits(kv, cuts, adds))

\* an update that leaves the last establishment location as it is
KeverUpdateLastEst(S, kv, serder, sigers, wigers, seqner, diger) ==
    LET sn == serder.s
        ilk == serder.t
        fail(S1, err) == [S |-> S1, err |-> err, kv |-> kv]
        logged(k, lg) == [S |-> lg.S, err |-> Ok, kv |-> [k EXCEPT !.fn = lg.fn]]
        advance(k, v, sq, dg) ==
            logged(k, logEvent(v.S, k, serder, v.sigers, v.wigers, TRUE, sq, dg))
        established(r, v) ==
            IF v.err # Ok THEN fail(v.S, v.err)
            ELSE IF v.delegator # kv.delegator THEN fail(v.S, ValidationError)
            ELSE advance([kv EXCEPT !.sn = sn, !.serder = serder.d, !.ilk = ilk,
                            !.tholder = r.tholder, !.verfers = serder.k,
                            !.nexter = serder.n, !.toad = r.toad,
                            !.wits = r.wits, !.cuts = r.cuts, !.adds = r.adds],
                         v, seqner, diger)
        rotated(r) ==
            IF r.err # Ok THEN fail(S, r.err)
            ELSE established(r,
                   valSigsDelWigs(S, kv, serder, sigers, serder.k, r.tholder,
                                  wigers, r.toad, r.wits, seqner, diger))
        interacted(v) ==
            IF v.err # Ok THEN fail(v.S, v.err)
            ELSE advance([kv EXCEPT !.sn = sn, !.serder = serder.d, !.ilk = ilk],
                         v, NoInt, NoDig)
    IN IF ~KeverTransferable(kv) THEN fail(S, ValidationError)
       ELSE IF serder.i # kv.prefixer THEN fail(S, ValidationError)
       ELSE IF validateSN(sn, FALSE) # Ok THEN fail(S, ValidationError)
       ELSE IF ilk \in {rot, drt}
            THEN IF kv.delegated /\ ilk # drt THEN fail(S, ValidationError)
                 ELSE rotated(KeverRotate(S, kv, serder, sn))
       ELSE IF ilk = ixn
            THEN IF kv.estOnly THEN fail(S, ValidationError)
                 ELSE IF sn # kv.sn + 1 THEN fail(S, ValidationError)
                 ELSE IF ~SerderCompare(kv.serder, serder.p)
                      THEN fail(S, ValidationError)
                 ELSE interacted(
                        valSigsDelWigs(S, kv, serder, sigers, kv.verfers,
                                       kv.tholder, wigers, kv.toad, kv.wits,
                                       NoInt, NoDig))
       ELSE fail(S, ValidationError)

\* Kever.update, self being kv: the state and the advanced Kever, or the error
KeverUpdate(S, kv, serder, sigers, wigers, seqner, diger) ==
    LET sn == serder.s
        ilk == serder.t
        fail(S1, err) == [S |-> S1, err |-> err, kv |-> kv]
        logged(k, lg) == [S |-> lg.S, err |-> Ok, kv |-> [k EXCEPT !.fn = lg.fn]]
        advance(k, v, sq, dg) ==
            logged(k, logEvent(v.S, k, serder, v.sigers, v.wigers, TRUE, sq, dg))
        established(r, v) ==
            IF v.err # Ok THEN fail(v.S, v.err)
            ELSE IF v.delegator # kv.delegator THEN fail(v.S, ValidationError)
            ELSE advance([kv EXCEPT !.sn = sn, !.serder = serder.d, !.ilk = ilk,
                            !.tholder = r.tholder, !.verfers = serder.k,
                            !.nexter = serder.n, !.toad = r.toad,
                            !.wits = r.wits, !.cuts = r.cuts, !.adds = r.adds,
                            !.lastEst = [s |-> sn, d |-> serder.d]],
                         v, seqner, diger)
        rotated(r) ==
            IF r.err # Ok THEN fail(S, r.err)
            ELSE established(r,
                   valSigsDelWigs(S, kv, serder, sigers, serder.k, r.tholder,
                                  wigers, r.toad, r.wits, seqner, diger))
        interacted(v) ==
            IF v.err # Ok THEN fail(v.S, v.err)
            ELSE advance([kv EXCEPT !.sn = sn, !.serder = serder.d, !.ilk = ilk],
                         v, NoInt, NoDig)
    IN IF ~KeverTransferable(kv) THEN fail(S, ValidationError)
       ELSE IF serder.i # kv.prefixer THEN fail(S, ValidationError)
       ELSE IF validateSN(sn, FALSE) # Ok THEN fail(S, ValidationError)
       ELSE IF ilk \in {rot, drt}
            THEN IF kv.delegated /\ ilk # drt THEN fail(S, ValidationError)
                 ELSE rotated(KeverRotate(S, kv, serder, sn))
       ELSE IF ilk = ixn
            THEN IF kv.estOnly THEN fail(S, ValidationError)
                 ELSE IF sn # kv.sn + 1 THEN fail(S, ValidationError)
                 ELSE IF ~SerderCompare(kv.serder, serder.p)
                      THEN fail(S, ValidationError)
                 ELSE interacted(
                        valSigsDelWigs(S, kv, serder, sigers, kv.verfers,
                                       kv.tholder, wigers, kv.toad, kv.wits,
                                       NoInt, NoDig))
       ELSE fail(S, ValidationError)

-----------------------------------------------------------------------------
(* Kevery *)

\* an escrow that indexes the event in the KEL, not in the out of order index
escrowOOEventKel(S, serder, sigers, seqner, diger) ==
    LET dgkey == dgKey(serder.i, serder.d)
    IN [S EXCEPT !.dtss = PutVal(@, dgkey, now),
                 !.sigs = PutVals(@, dgkey, sigers),
                 !.evts = PutVal(@, dgkey, serder.d),
                 !.kels = AddIoVal(@, snKey(serder.i, serder.s), serder.d),
                 !.pdes = IF seqner # NoInt /\ diger # NoDig
                          THEN PutVal(@, dgkey, [s |-> seqner, d |-> diger])
                          ELSE @]

\* Kevery.escrowOOEvent
escrowOOEvent(S, serder, sigers, seqner, diger) ==
    LET dgkey == dgKey(serder.i, serder.d)
    IN [S EXCEPT !.dtss = PutVal(@, dgkey, now),
                 !.sigs = PutVals(@, dgkey, sigers),
                 !.evts = PutVal(@, dgkey, serder.d),
                 !.ooes = AddIoVal(@, snKey(serder.i, serder.s), serder.d),
                 !.pdes = IF seqner # NoInt /\ diger # NoDig
                          THEN PutVal(@, dgkey, [s |-> seqner, d |-> diger])
                          ELSE @]

\* Kevery.escrowLDEvent
escrowLDEvent(S, serder, sigers) ==
    LET dgkey == dgKey(serder.i, serder.d)
    IN [S EXCEPT !.dtss = PutVal(@, dgkey, now),
                 !.sigs = PutVals(@, dgkey, sigers),
                 !.evts = PutVal(@, dgkey, serder.d),
                 !.ldes = AddIoVal(@, snKey(serder.i, serder.s), serder.d)]

\* Kevery.fetchEstEvent: digest of the establishment event that is
\* authoritative at sn, NoDig when there is none
RECURSIVE fetchEstEvent(_, _, _)
fetchEstEvent(S, pre, sn) ==
    LET got(raw) ==
            IF raw = NoDig THEN NoDig
            ELSE IF Serder(raw).t \in {icp, dip, rot, drt} THEN raw
            ELSE IF Serder(raw).s - 1 < 0 THEN NoDig
            ELSE fetchEstEvent(S, pre, Serder(raw).s - 1)
        last(dig) ==
            IF dig = NoDig THEN NoDig
            ELSE got(Get(S.evts, dgKey(pre, dig), NoDig))
    IN last(GetIoLast(S.kels, snKey(pre, sn)))

\* history: what the first seen acceptance of serder was given, and the key
\* state it met (NoKever at inception); via tells whether it came as a message
\* or out of an escrow
Accepted(S, serder, sigers, wigers, seqner, diger, kv) ==
    [S EXCEPT !.acc = SetVal(@, serder.i,
        Append(Get(@, serder.i, <<>>),
               [d |-> serder.d, sigers |-> sigers, wigers |-> wigers,
                seqner |-> seqner, diger |-> diger,
                kever |-> kv, after |-> S.kevers[serder.i],
                fn |-> S.kevers[serder.i].fn, via |-> "msg"]))]

\* history: an acceptance made between S0 and S1 came out of the escrow tag
Via(S0, S1, pre, tag) ==
    IF Len(Get(S1.acc, pre, <<>>)) > Len(Get(S0.acc, pre, <<>>))
    THEN [S1 EXCEPT !.acc[pre][Len(S1.acc[pre])].via = tag]
    ELSE S1

\* the receipt cue both accepting branches of processEvent append
CueReceipt(S, serder) ==
    IF direct \/ opre = NoPre \/ opre # serder.i
    THEN [S EXCEPT !.cues = Append(@, [kin |-> "receipt", serder |-> serder.d])]
    ELSE S

\* Kevery.processEvent
processEvent(S, serder, sigers, wigers, seqner, diger) ==
    LET pre == serder.i
        sn == serder.s
        ilk == serder.t
        dig == serder.d
        kever == S.kevers[pre]
        first(r, kv) ==
            IF r.err # Ok THEN Raise(r.S, r.err)
            ELSE Raise(CueReceipt(
                         Accepted([r.S EXCEPT !.kevers[pre] = r.kv],
                                  serder, sigers, wigers, seqner, diger, kv),
                         serder), Ok)
        relog(vs, vw) ==
            IF vs.err # Ok THEN Raise(S, vs.err)
            ELSE IF vw.err # Ok THEN Raise(S, vw.err)
            ELSE IF vs.sigers # <<>> \/ vw.sigers # <<>>
                 THEN Raise(logEvent(S, kever, serder, vs.sigers, vw.sigers,
                                     FALSE, NoInt, NoDig).S, Ok)
                 ELSE Raise(S, Ok)
        \* duplicate inception: witness signatures against the event's own b
        dupicp(edig) ==
            IF edig = NoDig THEN Raise(S, OtherError)
            ELSE IF Serder(edig).d = dig
                 THEN relog(verifySigs(serder, sigers, Serder(edig).k),
                            verifySigs(serder, wigers, Serder(edig).b))
            ELSE Raise(escrowLDEvent(S, serder, sigers), LikelyDuplicitousError)
        \* duplicate later event: witness signatures against the current wits,
        \* when its establishment event is the current one
        dup(edig) ==
            IF edig = NoDig THEN Raise(S, OtherError)
            ELSE relog(verifySigs(serder, sigers, Serder(edig).k),
                       IF /\ Serder(edig).s = kever.lastEst.s
                          /\ Serder(edig).d = kever.lastEst.d
                       THEN verifySigs(serder, wigers, kever.wits)
                       ELSE [err |-> Ok, sigers |-> <<>>, indices |-> <<>>])
        later(ddig) ==
            IF ddig = NoDig THEN Raise(S, OtherError)
            ELSE IF ddig = dig THEN dup(fetchEstEvent(S, pre, sn))
            ELSE Raise(escrowLDEvent(S, serder, sigers), LikelyDuplicitousError)
    IN IF pre \notin DOMAIN Prefixes THEN Raise(S, ValidationError)
       ELSE IF opre # NoPre /\ local /\ opre # pre THEN Raise(S, ValueError)
       ELSE IF opre # NoPre /\ ~local /\ opre = pre THEN Raise(S, ValueError)
       ELSE IF kever = NoKever
            THEN IF ilk \in {icp, dip}
                 THEN first(KeverInit(S, serder, sigers, wigers, seqner, diger),
                            NoKever)
                 ELSE Raise(escrowOOEvent(S, serder, sigers, seqner, diger),
                            OutOfOrderError)
       ELSE IF ilk \in {icp, dip}
            THEN IF sn # 0 THEN Raise(S, ValueError)
                 ELSE dupicp(fetchEstEvent(S, pre, sn))
       ELSE IF sn > kever.sn + 1
            THEN Raise(escrowOOEvent(S, serder, sigers, seqner, diger),
                       OutOfOrderError)
       ELSE IF \/ sn = kever.sn + 1
               \/ (ilk \in {rot, drt} /\ kever.lastEst.s < sn
                     /\ sn <= kever.sn + 1)
            THEN first(KeverUpdate(S, kever, serder, sigers, wigers, seqner,
                                   diger), kever)
       ELSE later(GetIoLast(S.kels, snKey(pre, sn)))

\* Kevery.escrowUWReceipt
escrowUWReceipt(S, serder, wigers, dig) ==
    [S EXCEPT !.dtss = PutVal(@, dgKey(serder.i, dig), now),
              !.uwes = PutVals(@, snKey(serder.i, serder.s),
                               [j \in 1..Len(wigers) |->
                                  [d |-> dig, wiger |-> wigers[j]]])]

\* Kevery.processReceiptWitness
processReceiptWitness(S, serder, wigers) ==
    LET pre == serder.i
        sn == serder.s
        written(dgkey, good) ==
            Raise([S EXCEPT !.wigs = PutVals(@, dgkey, good)], Ok)
        verify(dgkey, kever, lserder) ==
            written(dgkey,
                SelectSeq(wigers, LAMBDA w :
                    /\ w.index < Len(kever.wits)
                    /\ ~VerferTransferable(kever.wits[w.index + 1])
                    /\ ~(/\ opre # NoPre
                         /\ opre = kever.wits[w.index + 1]
                         /\ (opre = pre \/ ~local))
                    /\ VerferVerify(kever.wits[w.index + 1], w, lserder)))
        receipted(dgkey, lserder) ==
            IF ~SerderCompare(lserder.d, serder.d) THEN Raise(S, ValidationError)
            ELSE verify(dgkey, S.kevers[pre], lserder)
        last(ldig) ==
            IF ldig # NoDig
            THEN receipted(dgKey(pre, ldig), Serder(S.evts[dgKey(pre, ldig)]))
            ELSE Raise(escrowUWReceipt(S, serder, wigers, serder.d),
                       UnverifiedWitnessReceiptError)
    IN last(GetIoLast(S.kels, snKey(pre, sn)))

\* wits.index(rpre) of a member of wits
WitIndex(wits, rpre) ==
    (CHOOSE j \in 1..Len(wits) :
        wits[j] = rpre /\ \A h \in 1..(j - 1) : wits[h] # rpre) - 1

\* the receipter's own node skips its own receipt couple
OwnReceipt(verfer, pre) ==
    opre # NoPre /\ opre = verfer /\ (opre = pre \/ ~local)

\* Kevery.escrowUReceipt
escrowUReceipt(S, serder, cigars, dig) ==
    LET kept == SelectSeq(cigars, LAMBDA c : ~VerferTransferable(c.verfer))
    IN [S EXCEPT !.dtss = PutVal(@, dgKey(serder.i, dig), now),
                 !.ures = PutVals(@, snKey(serder.i, serder.s),
                                  [j \in 1..Len(kept) |->
                                     [d |-> dig, cigar |-> kept[j]]])]

\* the verified couples written with the else branch taken for every
\* receipter: a witness's couple is a witness signature and a couple as well
writeCouplesBoth(S, dgkey, kever, good) ==
    LET ofwit == SelectSeq(good, LAMBDA c : c.verfer \in Range(kever.wits))
    IN [S EXCEPT
          !.wigs = PutVals(@, dgkey,
                     [j \in 1..Len(ofwit) |->
                        Siger(WitIndex(kever.wits, ofwit[j].verfer),
                              ofwit[j].key, ofwit[j].msg)]),
          !.rcts = PutVals(@, dgkey, good)]

\* the verified couples of a receipt are written: as a witness signature
\* when the receipter is a witness, as a receipt couple when it is not
writeCouples(S, dgkey, kever, good) ==
    LET ofwit == SelectSeq(good, LAMBDA c : c.verfer \in Range(kever.wits))
        other == SelectSeq(good, LAMBDA c : c.verfer \notin Range(kever.wits))
    IN [S EXCEPT
          !.wigs = PutVals(@, dgkey,
                     [j \in 1..Len(ofwit) |->
                        Siger(WitIndex(kever.wits, ofwit[j].verfer),
                              ofwit[j].key, ofwit[j].msg)]),
          !.rcts = PutVals(@, dgkey, other)]

\* Kevery.processReceipt without the comparison of the digests
processReceiptAny(S, serder, cigars) ==
    LET pre == serder.i
        verify(dgkey, lserder) ==
            Raise(writeCouples(S, dgkey, S.kevers[pre],
                    SelectSeq(cigars, LAMBDA c :
                        /\ ~VerferTransferable(c.verfer)
                        /\ ~OwnReceipt(c.verfer, pre)
                        /\ VerferVerify(c.verfer, c, lserder))), Ok)
        last(ldig) ==
            IF ldig # NoDig
            THEN verify(dgKey(pre, ldig), Serder(S.evts[dgKey(pre, ldig)]))
            ELSE Raise(escrowUReceipt(S, serder, cigars, serder.d),
                       UnverifiedReceiptError)
    IN last(GetIoLast(S.kels, snKey(pre, serder.s)))

\* Kevery.processReceipt
processReceipt(S, serder, cigars) ==
    LET pre == serder.i
        verify(dgkey, lserder) ==
            Raise(writeCouples(S, dgkey, S.kevers[pre],
                    SelectSeq(cigars, LAMBDA c :
                        /\ ~VerferTransferable(c.verfer)
                        /\ ~OwnReceipt(c.verfer, pre)
                        /\ VerferVerify(c.verfer, c, lserder))), Ok)
        receipted(dgkey, lserder) ==
            IF ~SerderCompare(lserder.d, serder.d) THEN Raise(S, ValidationError)
            ELSE verify(dgkey, lserder)
        last(ldig) ==
            IF ldig # NoDig
            THEN receipted(dgKey(pre, ldig), Serder(S.evts[dgKey(pre, ldig)]))
            ELSE Raise(escrowUReceipt(S, serder, cigars, serder.d),
                       UnverifiedReceiptError)
    IN last(GetIoLast(S.kels, snKey(pre, serder.s)))

\* the quintuples of one group of a transferable receipt
Quintuples(edig, tsg) ==
    [j \in 1..Len(tsg.sigers) |->
       [d |-> edig, i |-> tsg.i, s |-> tsg.s, sd |-> tsg.d,
        siger |-> tsg.sigers[j]]]

\* Kevery.escrowTReceipts: the timestamp is put at the digest of the receipt
\* message, the quintuples hold the digest of the receipted event
escrowTReceipts(S, serder, tsg) ==
    [S EXCEPT !.dtss = PutVal(@, dgKey(serder.i, serder.dig), now),
              !.vres = PutVals(@, snKey(serder.i, serder.s),
                               Quintuples(serder.d, tsg))]

\* Kevery.escrowTRGroups
RECURSIVE escrowTRGroups(_, _, _)
escrowTRGroups(S, serder, tsgs) ==
    IF tsgs = <<>> THEN S
    ELSE escrowTRGroups(escrowTReceipts(S, serder, Head(tsgs)), serder,
                        Tail(tsgs))

\* the signatures of one group are verified with the keys of the receipter's
\* establishment event and the good ones written as quadruples, up to the
\* first signature whose index is too large
writeQuadruples(S, dgkey, lserder, tsg, sverfers) ==
    LET sigers == tsg.sigers
        large == {j \in 1..Len(sigers) : sigers[j].index >= Len(sverfers)}
        stop == IF large = {} THEN Len(sigers) + 1
                ELSE CHOOSE j \in large : \A h \in large : j <= h
        good == SelectSeq(SubSeq(sigers, 1, stop - 1), LAMBDA g :
                    VerferVerify(sverfers[g.index + 1], g, lserder))
    IN Raise([S EXCEPT !.vrcs = PutVals(@, dgkey,
                [j \in 1..Len(good) |->
                   [i |-> tsg.i, s |-> tsg.s, sd |-> tsg.d,
                    siger |-> good[j]]])],
             IF large = {} THEN Ok ELSE ValidationError)

\* the receipter is in .kevers
Known(S, pre) == pre \in DOMAIN S.kevers /\ S.kevers[pre] # NoKever

\* Kevery.processReceiptTrans, the loop over the groups
RECURSIVE receiptGroups(_, _, _, _, _)
receiptGroups(S, serder, dgkey, lserder, tsgs) ==
    LET tsg == Head(tsgs)
        next(r) == IF r.err # Ok THEN r
                   ELSE receiptGroups(r.S, serder, dgkey, lserder, Tail(tsgs))
        est(sserder) ==
            IF ~SerderCompare(sserder.d, tsg.d) THEN Raise(S, ValidationError)
            ELSE IF sserder.k = <<>> THEN Raise(S, ValidationError)
            ELSE next(writeQuadruples(S, dgkey, lserder, tsg, sserder.k))
        known(sdig) ==
            IF sdig = NoDig
            THEN Raise(escrowTReceipts(S, serder, tsg),
                       UnverifiedTransferableReceiptError)
            ELSE est(Serder(S.evts[dgKey(tsg.i, sdig)]))
    IN IF tsgs = <<>> THEN Raise(S, Ok)
       ELSE IF opre # NoPre /\ opre = tsg.i /\ (opre = serder.i \/ ~local)
            THEN Raise(S, ValidationError)
       ELSE IF Known(S, tsg.i)
            THEN known(GetIoLast(S.kels, snKey(tsg.i, tsg.s)))
       ELSE next(Raise(S, Ok))

\* Kevery.processReceiptTrans: the last event at (pre, sn) is compared with
\* its own digest in the store, not with the digest the receipt names
processReceiptTrans(S, serder, tsgs) ==
    LET pre == serder.i
        receipted(ldig, lserder) ==
            IF ~SerderCompare(lserder.d, ldig) THEN Raise(S, ValidationError)
            ELSE receiptGroups(S, serder, dgKey(pre, ldig), lserder, tsgs)
        last(ldig) ==
            IF ldig = NoDig
            THEN Raise(escrowTRGroups(S, serder, tsgs),
                       UnverifiedTransferableReceiptError)
            ELSE receipted(ldig, Serder(S.evts[dgKey(pre, ldig)]))
    IN last(GetIoLast(S.kels, snKey(pre, serder.s)))

\* Kevery.processReceiptCouples: the receipt couples attached to the event
\* serder, looked up by its sequence number
processReceiptCouples(S, serder, cigars) ==
    LET pre == serder.i
        verify(dgkey) ==
            Raise(writeCouples(S, dgkey, S.kevers[pre],
                    SelectSeq(cigars, LAMBDA c :
                        /\ ~VerferTransferable(c.verfer)
                        /\ ~OwnReceipt(c.verfer, pre)
                        /\ VerferVerify(c.verfer, c, serder))), Ok)
        last(ldig) ==
            IF ldig = NoDig
            THEN Raise(escrowUReceipt(S, serder, cigars, serder.d),
                       UnverifiedReceiptError)
            ELSE IF ~SerderCompare(serder.d, ldig)
                 THEN Raise(S, ValidationError)
            ELSE verify(dgKey(pre, ldig))
    IN last(GetIoLast(S.kels, snKey(pre, serder.s)))

\* Kevery.escrowTRQuadruple
escrowTRQuadruple(S, serder, q) ==
    [S EXCEPT !.dtss = PutVal(@, dgKey(serder.i, serder.d), now),
              !.vres = PutVals(@, snKey(serder.i, serder.s),
                               <<[d |-> serder.d, i |-> q.i, s |-> q.s,
                                  sd |-> q.sd, siger |-> q.siger]>>)]

\* Kevery.processReceiptQuadruples: the transferable receipt quadruples
\* attached to the event serder, one after the other up to the first error
RECURSIVE receiptQuadruples(_, _, _, _)
receiptQuadruples(S, serder, ldig, trqs) ==
    LET pre == serder.i
        q == Head(trqs)
        escrowed == Raise(escrowTRQuadruple(S, serder, q),
                          UnverifiedTransferableReceiptError)
        written ==
            receiptQuadruples(
                [S EXCEPT !.vrcs = PutVals(@, dgKey(pre, serder.d), <<q>>)],
                serder, ldig, Tail(trqs))
        est(sserder) ==
            IF ~SerderCompare(sserder.d, q.sd) THEN Raise(S, ValidationError)
            ELSE IF sserder.k = <<>> THEN Raise(S, ValidationError)
            ELSE IF q.siger.index >= Len(sserder.k)
                 THEN Raise(S, ValidationError)
            ELSE IF ~VerferVerify(sserder.k[q.siger.index + 1], q.siger, serder)
                 THEN Raise(S, ValidationError)
            ELSE written
        known(sdig) ==
            IF sdig = NoDig THEN escrowed
            ELSE est(Serder(S.evts[dgKey(q.i, sdig)]))
    IN IF trqs = <<>> THEN Raise(S, Ok)
       ELSE IF opre # NoPre /\ opre = q.i /\ (opre = pre \/ ~local)
            THEN Raise(S, ValidationError)
       ELSE IF ldig # NoDig /\ Known(S, q.i)
            THEN IF ~SerderCompare(serder.d, ldig)
                 THEN Raise(S, ValidationError)
                 ELSE known(GetIoLast(S.kels, snKey(q.i, q.s)))
       ELSE escrowed

processReceiptQuadruples(S, serder, trqs) ==
    receiptQuadruples(S, serder,
                      GetIoLast(S.kels, snKey(serder.i, serder.s)), trqs)

\* Parser.msgProcessor, the dispatch of an event message with the receipt
\* couples and quadruples attached to it, one try block: what one call
\* raises ends the block
dispatchEvent(S, serder, sigers, wigers, seqner, diger, cigars, trqs) ==
    LET couples(K) ==
            IF cigars # <<>> THEN processReceiptCouples(K, serder, cigars)
            ELSE Raise(K, Ok)
        quadruples(c) ==
            IF c.err # Ok THEN c
            ELSE IF trqs # <<>>
                 THEN processReceiptQuadruples(c.S, serder, trqs)
            ELSE c
        event(r) == IF r.err # Ok THEN r ELSE quadruples(couples(r.S))
    IN IF sigers = <<>> THEN Raise(S, ValidationError)
       ELSE event(processEvent(S, serder, sigers, wigers, seqner, diger))

-----------------------------------------------------------------------------
(* Escrow passes *)

TimeoutOOE == 1200
TimeoutPSE == 3600
TimeoutPWE == 3600
TimeoutLDE == 3600
TimeoutUWE == 3600
TimeoutURE == 3600
TimeoutVRE == 3600

\* order of the keys (pre, sn) of an index table
KeyLess(k1, k2) ==
    \/ PreRank[k1[1]] < PreRank[k2[1]]
    \/ k1[1] = k2[1] /\ k1[2] < k2[2]

FirstKey(m) == CHOOSE x \in DOMAIN m : \A y \in DOMAIN m : ~KeyLess(y, x)

\* get...ItemsNextIter from the empty key on: every (key, dig) of index table
\* m, keys ascending, the duplicates at a key in insertion order
RECURSIVE Items(_)
Items(m) ==
    LET at(k) == [j \in 1..Len(m[k]) |-> <<k, m[k][j]>>] \o Items(DelVal(m, k))
    IN IF DOMAIN m = {} THEN <<>> ELSE at(FirstKey(m))

\* Baser.getKelIter(pre): every digest of the KEL index of pre, sequence
\* numbers ascending, the entries at one sequence number in insertion order
getKelIter(m, pre) ==
    LET digs(it) == [j \in 1..Len(it) |-> it[j][2]]
    IN digs(Items([k \in {x \in DOMAIN m : x[1] = pre} |-> m[k]]))

\* Baser.getKelEstIter(pre): the last digest at each sequence number
getKelEstIter(m, pre) ==
    LET digs(it) == [j \in 1..Len(it) |-> it[j][2]]
    IN digs(Items([k \in {x \in DOMAIN m : x[1] = pre} |->
                     <<GetIoLast(m, k)>>]))

\* the checks on an escrowed entry without the comparison with the timeout
EscrowedEventAny(S, dgkey, timeout) ==
    IF dgkey \notin DOMAIN S.dtss THEN ValidationError
    ELSE IF dgkey \notin DOMAIN S.evts THEN ValidationError
    ELSE IF Get(S.sigs, dgkey, <<>>) = <<>> THEN ValidationError
    ELSE Ok

\* the checks every pass makes on an escrowed entry before it processes it
EscrowedEvent(S, dgkey, timeout) ==
    IF dgkey \notin DOMAIN S.dtss THEN ValidationError
    ELSE IF now - S.dtss[dgkey] > timeout THEN ValidationError
    ELSE IF dgkey \notin DOMAIN S.evts THEN ValidationError
    ELSE IF Get(S.sigs, dgkey, <<>>) = <<>> THEN ValidationError
    ELSE Ok

\* one entry of the out of order escrow
unescrowOOE(S, item) ==
    LET pre == item[1][1]
        sn == item[1][2]
        edig == item[2]
        dgkey == dgKey(pre, edig)
        done(r) ==
            IF r.err = OutOfOrderError THEN r.S
            ELSE [Via(S, r.S, pre, "ooe") EXCEPT
                    !.ooes = DelIoVal(@, snKey(pre, sn), edig)]
    IN IF EscrowedEvent(S, dgkey, TimeoutOOE) # Ok
       THEN done(Raise(S, ValidationError))
       ELSE done(processEvent(S, Serder(S.evts[dgkey]), S.sigs[dgkey], <<>>,
                              NoInt, NoDig))

\* the entries taken in descending order
RECURSIVE walkOOEDescending(_, _)
walkOOEDescending(S, items) ==
    IF items = <<>> THEN S
    ELSE walkOOEDescending(unescrowOOE(S, items[Len(items)]),
                           SubSeq(items, 1, Len(items) - 1))

RECURSIVE walkOOE(_, _)
walkOOE(S, items) ==
    IF items = <<>> THEN S
    ELSE walkOOE(unescrowOOE(S, Head(items)), Tail(items))

\* Kevery.processEscrowOutOfOrders
processEscrowOutOfOrders(S) == walkOOE(S, Items(S.ooes))

\* one entry of the partially signed escrow
unescrowPSE(S, item) ==
    LET pre == item[1][1]
        sn == item[1][2]
        edig == item[2]
        dgkey == dgKey(pre, edig)
        done(r) ==
            IF r.err \in {MissingSignatureError, MissingDelegationError} THEN r.S
            ELSE IF r.err # Ok
                 THEN [r.S EXCEPT !.pses = DelIoVal(@, snKey(pre, sn), edig)]
            ELSE [Via(S, r.S, pre, "pse") EXCEPT
                    !.pses = DelIoVal(@, snKey(pre, sn), edig),
                    !.pdes = DelVal(@, dgkey)]
        with(couple) ==
            IF couple = NoCouple
            THEN processEvent(S, Serder(S.evts[dgkey]), S.sigs[dgkey], <<>>,
                              NoInt, NoDig)
            ELSE processEvent(S, Serder(S.evts[dgkey]), S.sigs[dgkey], <<>>,
                              couple.s, couple.d)
    IN IF EscrowedEvent(S, dgkey, TimeoutPSE) # Ok
       THEN done(Raise(S, ValidationError))
       ELSE done(with(Get(S.pdes, dgkey, NoCouple)))

RECURSIVE walkPSE(_, _)
walkPSE(S, items) ==
    IF items = <<>> THEN S
    ELSE walkPSE(unescrowPSE(S, Head(items)), Tail(items))

\* Kevery.processEscrowPartialSigs
processEscrowPartialSigs(S) == walkPSE(S, Items(S.pses))

\* one entry of the partially witnessed escrow
unescrowPWE(S, item) ==
    LET pre == item[1][1]
        sn == item[1][2]
        edig == item[2]
        dgkey == dgKey(pre, edig)
        done(r) ==
            IF r.err = MissingWitnessSignatureError THEN r.S
            ELSE [Via(S, r.S, pre, "pwe") EXCEPT
                    !.pwes = DelIoVal(@, snKey(pre, sn), edig)]
    IN IF EscrowedEvent(S, dgkey, TimeoutPWE) # Ok
       THEN done(Raise(S, ValidationError))
       ELSE done(processEvent(S, Serder(S.evts[dgkey]), S.sigs[dgkey],
                              Get(S.wigs, dgkey, <<>>), NoInt, NoDig))

RECURSIVE walkPWE(_, _)
walkPWE(S, items) ==
    IF items = <<>> THEN S
    ELSE walkPWE(unescrowPWE(S, Head(items)), Tail(items))

\* Kevery.processEscrowPartialWigs
processEscrowPartialWigs(S) == walkPWE(S, Items(S.pwes))

\* one entry of the likely duplicitous escrow
unescrowLDE(S, item) ==
    LET pre == item[1][1]
        sn == item[1][2]
        edig == item[2]
        dgkey == dgKey(pre, edig)
        done(r) ==
            IF r.err = LikelyDuplicitousError THEN r.S
            ELSE [Via(S, r.S, pre, "lde") EXCEPT
                    !.ldes = DelIoVal(@, snKey(pre, sn), edig)]
    IN IF EscrowedEvent(S, dgkey, TimeoutLDE) # Ok
       THEN done(Raise(S, ValidationError))
       ELSE done(processEvent(S, Serder(S.evts[dgkey]), S.sigs[dgkey], <<>>,
                              NoInt, NoDig))

RECURSIVE walkLDE(_, _)
walkLDE(S, items) ==
    IF items = <<>> THEN S
    ELSE walkLDE(unescrowLDE(S, Head(items)), Tail(items))

\* Kevery.processEscrowDuplicitous
processEscrowDuplicitous(S) == walkLDE(S, Items(S.ldes))

\* processEscrowUnverWitness: the witnesses in force for the escrowed event
\* serder, computed as Kever.incept and Kever.rotate do
UnverWits(S, serder) ==
    LET kv == S.kevers[serder.i]
        w(err, wits) == [err |-> err, wits |-> wits]
    IN IF serder.t \in {icp, dip}
       THEN IF Len(oset(serder.b)) # Len(serder.b) THEN w(ValidationError, <<>>)
            ELSE w(Ok, serder.b)
       ELSE IF kv = NoKever THEN w(OtherError, <<>>)
       ELSE IF serder.t \in {rot, drt}
            THEN IF RotateCutsAdds(kv, serder.br, serder.ba) # Ok
                 THEN w(ValidationError, <<>>)
                 ELSE w(Ok, RotateWits(kv, serder.br, serder.ba))
       ELSE w(Ok, kv.wits)

\* one couple of the unverified witness receipt escrow: the receipted event
\* is looked for in the partially witnessed escrow
unescrowUWE(S, item) ==
    LET pre == item[1][1]
        sn == item[1][2]
        ediger == item[2].d
        wiger == item[2].wiger
        remove(S1) == [S1 EXCEPT !.uwes = DelIoVal(@, snKey(pre, sn), item[2])]
        attach(serder, w) ==
            IF w.err # Ok THEN remove(S)
            ELSE IF wiger.index >= Len(w.wits) THEN remove(S)
            ELSE IF ~VerferVerify(w.wits[wiger.index + 1], wiger, serder)
                 THEN remove(S)
            ELSE remove([S EXCEPT
                   !.wigs = AddIoVal(@, dgKey(pre, serder.d), wiger)])
        found(dgkey) ==
            IF dgkey \notin DOMAIN S.evts THEN remove(S)
            ELSE attach(Serder(S.evts[dgkey]),
                        UnverWits(S, Serder(S.evts[dgkey])))
        search(cand, hits) ==
            IF hits = {} THEN S
            ELSE found(dgKey(pre, cand[CHOOSE j \in hits :
                                         \A h \in hits : j <= h]))
        lookup(cand) ==
            search(cand,
                   {j \in 1..Len(cand) :
                      \/ dgKey(pre, cand[j]) \notin DOMAIN S.evts
                      \/ SerderCompare(Serder(S.evts[dgKey(pre, cand[j])]).d,
                                       ediger)})
    IN IF dgKey(pre, ediger) \notin DOMAIN S.dtss THEN remove(S)
       ELSE IF now - S.dtss[dgKey(pre, ediger)] > TimeoutUWE THEN remove(S)
       ELSE lookup(Get(S.pwes, snKey(pre, sn), <<>>))

RECURSIVE walkUWE(_, _)
walkUWE(S, items) ==
    IF items = <<>> THEN S
    ELSE walkUWE(unescrowUWE(S, Head(items)), Tail(items))

\* Kevery.processEscrowUnverWitness
processEscrowUnverWitness(S) == walkUWE(S, Items(S.uwes))

\* one triple of the unverified receipt escrow
unescrowURE(S, item) ==
    LET pre == item[1][1]
        sn == item[1][2]
        ediger == item[2].d
        cigar == item[2].cigar
        remove(S1) == [S1 EXCEPT !.ures = DelIoVal(@, snKey(pre, sn), item[2])]
        write(dgkey, kever) ==
            IF cigar.verfer \in Range(kever.wits)
            THEN [S EXCEPT !.wigs = AddIoVal(@, dgkey,
                    Siger(WitIndex(kever.wits, cigar.verfer), cigar.key,
                          cigar.msg))]
            ELSE [S EXCEPT !.rcts = AddIoVal(@, dgkey, cigar)]
        receipted(serder) ==
            IF ~SerderCompare(serder.d, ediger) THEN remove(S)
            ELSE IF ~VerferVerify(cigar.verfer, cigar, serder) THEN remove(S)
            ELSE remove(write(dgKey(pre, serder.d), S.kevers[serder.i]))
        last(dig) ==
            IF dig = NoDig THEN S
            ELSE IF dgKey(pre, dig) \notin DOMAIN S.evts THEN remove(S)
            ELSE receipted(Serder(S.evts[dgKey(pre, dig)]))
    IN IF dgKey(pre, ediger) \notin DOMAIN S.dtss THEN remove(S)
       ELSE IF now - S.dtss[dgKey(pre, ediger)] > TimeoutURE THEN remove(S)
       ELSE last(GetIoLast(S.kels, snKey(pre, sn)))

RECURSIVE walkURE(_, _)
walkURE(S, items) ==
    IF items = <<>> THEN S
    ELSE walkURE(unescrowURE(S, Head(items)), Tail(items))

\* Kevery.processEscrowUnverNonTrans
processEscrowUnverNonTrans(S) == walkURE(S, Items(S.ures))

\* one quintuple of the unverified transferable receipt escrow: its
\* timestamp is looked up at the digest of the receipted event
unescrowVRE(S, item) ==
    LET pre == item[1][1]
        sn == item[1][2]
        q == item[2]
        remove(S1) == [S1 EXCEPT !.vres = DelIoVal(@, snKey(pre, sn), q)]
        est(serder, sserder) ==
            IF ~SerderCompare(sserder.d, q.sd) THEN remove(S)
            ELSE IF sserder.k = <<>> THEN remove(S)
            ELSE IF q.siger.index >= Len(sserder.k) THEN remove(S)
            ELSE IF ~VerferVerify(sserder.k[q.siger.index + 1], q.siger, serder)
                 THEN remove(S)
            ELSE remove([S EXCEPT !.vrcs = AddIoVal(@, dgKey(pre, serder.d),
                            [i |-> q.i, s |-> q.s, sd |-> q.sd,
                             siger |-> q.siger])])
        receipter(serder, sdig) ==
            IF sdig = NoDig THEN S
            ELSE est(serder, Serder(S.evts[dgKey(q.i, sdig)]))
        receipted(serder) ==
            IF ~SerderCompare(serder.d, q.d) THEN remove(S)
            ELSE receipter(serder, GetIoLast(S.kels, snKey(q.i, q.s)))
        last(dig) ==
            IF dig = NoDig THEN S
            ELSE IF dgKey(pre, dig) \notin DOMAIN S.evts THEN remove(S)
            ELSE receipted(Serder(S.evts[dgKey(pre, dig)]))
    IN IF dgKey(pre, q.d) \notin DOMAIN S.dtss THEN remove(S)
       ELSE IF now - S.dtss[dgKey(pre, q.d)] > TimeoutVRE THEN remove(S)
       ELSE last(GetIoLast(S.kels, snKey(pre, sn)))

RECURSIVE walkVRE(_, _)
walkVRE(S, items) ==
    IF items = <<>> THEN S
    ELSE walkVRE(unescrowVRE(S, Head(items)), Tail(items))

\* Kevery.processEscrowUnverTrans
processEscrowUnverTrans(S) == walkVRE(S, Items(S.vres))

-----------------------------------------------------------------------------
(* Parser: the stream, unit by unit *)

\* ColdCodex: the tritets of the first byte at a cold start
Free == 0
CtB64 == 1
OpB64 == 2
JSON == 3
MGPK1 == 4
CBOR == 5
MGPK2 == 6
CtOpB2 == 7

ColdStartError == "ColdStartError"
ExtractionError == "ExtractionError"
SizedGroupError == "SizedGroupError"
ShortageError == "ShortageError"
VersionError == "VersionError"

\* CtrDex: the count codes of the model, and a code the parser does not know
ControllerIdxSigs == "-A"
WitnessIdxSigs == "-B"
AttachedMaterialQuadlets == "-V"
UnknownCode == "-Z"

\* the units of a stream: a message body in one unit; a message body in two
\* units, the first with the version string that announces the two; a
\* counter; an indexed signature; a byte of the free tritet; Base64 text that
\* is no primitive
BodyU(d) == [k |-> "body", d |-> d]
HeadU(d) == [k |-> "head", d |-> d]
TailU(d) == [k |-> "tail", d |-> d]
CtrU(code, count) == [k |-> "ctr", code |-> code, count |-> count]
SigU(siger) == [k |-> "sig", siger |-> siger]
FreeU == [k |-> "free"]
BadU == [k |-> "bad"]

\* the first three bits of the first byte of a unit
Tritet(u) ==
    CASE u.k \in {"body", "head", "tail"} -> JSON
      [] u.k \in {"ctr", "bad"} -> CtB64
      [] u.k = "sig" -> OpB64
      [] OTHER -> Free

\* Parser._sniff on a stream that is not empty
sniff(s) ==
    IF Tritet(s[1]) \in {JSON, MGPK1, CBOR, MGPK2} THEN "msg"
    ELSE IF Tritet(s[1]) \in {CtB64, OpB64} THEN "txt"
    ELSE IF Tritet(s[1]) = CtOpB2 THEN "bny"
    ELSE ColdStartError

\* the attachments of a message as units: a counter and the signatures, for
\* the controller's and for the witnesses' signatures
Attachments(sigers, wigers) ==
    LET group(code, sg) ==
            IF sg = <<>> THEN <<>>
            ELSE <<CtrU(code, Len(sg))>> \o [j \in 1..Len(sg) |-> SigU(sg[j])]
    IN group(ControllerIdxSigs, sigers) \o group(WitnessIdxSigs, wigers)

\* messagize: the body of the event of digest d and its attachments
Messagize(d, sigers, wigers) == <<BodyU(d)>> \o Attachments(sigers, wigers)

\* the same with the attachments in one pipelined group that announces n units
Pipelined(d, sigers, wigers, n) ==
    <<BodyU(d), CtrU(AttachedMaterialQuadlets, n)>>
        \o Attachments(sigers, wigers)

\* what the parser hands to Kevery.processEvent
Handed(d, sigers, wigers) == [d |-> d, sigers |-> sigers, wigers |-> wigers]

\* the locals of msgProcessor at its start, the generator between messages
Fresh ==
    [pc |-> "idle", serder |-> NoDig, sigers |-> <<>>, wigers |-> <<>>,
     pipelined |-> FALSE, pims |-> <<>>, pags |-> 0, code |-> "", left |-> 0,
     err |-> Ok]

\* the generator suspends at a yield
Yield(P) == [P EXCEPT !.halt = TRUE]

\* allProcessor with the stream kept after every error
RaisedKeep(P, e) ==
    [P EXCEPT !.g = [Fresh EXCEPT !.err = e], !.halt = TRUE]

\* allProcessor with the stream flushed after every error
RaisedFlush(P, e) ==
    [P EXCEPT !.ims = <<>>, !.g = [Fresh EXCEPT !.err = e], !.halt = TRUE]

\* allProcessor: msgProcessor raised err: the stream is flushed after a cold
\* start error or an extraction error outside a sized group, and kept
\* otherwise; then the yield of allProcessor
Raised(P, e) ==
    [P EXCEPT !.ims = IF e \in {ColdStartError, ExtractionError} THEN <<>>
                      ELSE @,
              !.g = [Fresh EXCEPT !.err = e],
              !.halt = TRUE]

\* msgProcessor with every extraction error in the attachments raised as it is
AttachmentErrorFlush(P, e) == Raised(P, e)

\* msgProcessor: an extraction error in the attachments is a sized group
\* error when the attachments are in a pipelined group
AttachmentError(P, e) ==
    IF P.g.pipelined THEN Raised(P, SizedGroupError) ELSE Raised(P, e)

\* msgProcessor and allProcessor with the stream flushed when the message
\* is not handed to the Kevery or the Kevery raises
DispatchFlush(P) ==
    LET g == P.g
        r == processEvent(P.K, Serder(g.serder), g.sigers, g.wigers,
                          NoInt, NoDig)
    IN IF g.sigers = <<>> THEN RaisedFlush(P, ValidationError)
       ELSE [P EXCEPT !.K = r.S,
                      !.out = Append(@, Handed(g.serder, g.sigers, g.wigers)),
                      !.ims = IF r.err = Ok THEN @ ELSE <<>>,
                      !.g = [Fresh EXCEPT !.err = r.err],
                      !.halt = TRUE]

\* msgProcessor: the message is dispatched on its ilk, an event to
\* Kevery.processEvent; an event without signatures is not handed on
Dispatch(P) ==
    LET g == P.g
        r == processEvent(P.K, Serder(g.serder), g.sigers, g.wigers,
                          NoInt, NoDig)
    IN IF g.sigers = <<>> THEN Raised(P, ValidationError)
       ELSE [P EXCEPT !.K = r.S,
                      !.out = Append(@, Handed(g.serder, g.sigers, g.wigers)),
                      !.g = [Fresh EXCEPT !.err = r.err],
                      !.halt = TRUE]

\* msgProcessor: the attachments are done, the try block is left
Extracted(P) == [P EXCEPT !.g.pc = "dispatch"]

\* the stream msgProcessor extracts attachments from
Buf(P) == IF P.g.pipelined THEN P.g.pims ELSE P.ims

Strip(P) ==
    IF P.g.pipelined THEN [P EXCEPT !.g.pims = Tail(@)]
    ELSE [P EXCEPT !.ims = Tail(@)]

\* msgProcessor: the next counter is extracted from a stream that is not empty
ExtractCounter(P) ==
    IF Buf(P)[1].k # "ctr" THEN AttachmentError(P, ExtractionError)
    ELSE [Strip(P) EXCEPT !.g.pc = "item",
                          !.g.code = Buf(P)[1].code,
                          !.g.left = Buf(P)[1].count]

\* msgProcessor: the stream after a group, not pipelined: an unknown tritet
\* is a cold start error, a message tritet ends the attachments
Boundary(P) ==
    IF sniff(P.ims) = ColdStartError THEN Raised(P, ColdStartError)
    ELSE IF sniff(P.ims) = "msg" THEN Extracted(P)
    ELSE ExtractCounter(P)

\* msgProcessor: a group of attachments has been extracted
AfterGroup(P) ==
    IF P.g.pipelined
    THEN IF P.g.pims = <<>> THEN Extracted(P) ELSE ExtractCounter(P)
    ELSE IF framed
         THEN IF P.ims = <<>> THEN Extracted(P) ELSE Boundary(P)
    ELSE [P EXCEPT !.g.pc = "next"]

\* Serder(raw=ims) at the start of a message: the body is extracted when the
\* stream holds all of it, ShortageError waits for more, a body that does
\* not deserialize raises an error that is no extraction error
ExtractBody(P) ==
    LET u == P.ims[1]
    IN IF u.k = "body"
       THEN [P EXCEPT !.ims = Tail(@), !.g.serder = u.d, !.g.pc = "atts"]
       ELSE IF u.k = "head"
            THEN IF Len(P.ims) < 2 THEN Yield(P)
                 ELSE IF P.ims[2] = TailU(u.d)
                      THEN [P EXCEPT !.ims = SubSeq(@, 3, Len(@)),
                                     !.g.serder = u.d, !.g.pc = "atts"]
                 ELSE Raised(P, VersionError)
       ELSE Raised(P, VersionError)

\* msgProcessor: the first counter after the body
FirstCounter(P) ==
    LET u == P.ims[1]
    IN IF sniff(P.ims) = ColdStartError THEN Raised(P, ColdStartError)
       ELSE IF sniff(P.ims) = "msg" THEN Extracted(P)
       ELSE IF u.k # "ctr" THEN Raised(P, ExtractionError)
       ELSE IF u.code = AttachedMaterialQuadlets
            THEN [P EXCEPT !.ims = Tail(@), !.g.pipelined = TRUE,
                           !.g.pags = u.count, !.g.pc = "pags"]
       ELSE ExtractCounter(P)

\* msgProcessor returns without an exception: allProcessor yields and its
\* loop goes on with what follows
Returned(P) == [P EXCEPT !.g = Fresh, !.halt = TRUE]

\* msgProcessor: the pipelined group is copied out of the stream once all of
\* it is there; with the pipeline option msgProcessor returns here, without
\* it the first counter of the group is extracted
ExtractGroup(P) ==
    LET n == P.g.pags
        Q == [P EXCEPT !.g.pims = SubSeq(P.ims, 1, n),
                       !.ims = SubSeq(@, n + 1, Len(@))]
    IN IF Len(P.ims) < n THEN Yield(P)
       ELSE IF pipeline THEN Returned(Q)
       ELSE IF n = 0 THEN Raised(Q, SizedGroupError)
       ELSE ExtractCounter(Q)

\* msgProcessor: the signatures a counter announces are extracted one by one
ExtractItem(P) ==
    LET g == P.g
        add(siger) ==
            IF g.code = ControllerIdxSigs
            THEN [Strip(P) EXCEPT !.g.sigers = Append(@, siger),
                                  !.g.left = @ - 1]
            ELSE [Strip(P) EXCEPT !.g.wigers = Append(@, siger),
                                  !.g.left = @ - 1]
    IN IF g.code \notin {ControllerIdxSigs, WitnessIdxSigs}
       THEN AttachmentError(P, ExtractionError)
       ELSE IF g.left = 0 THEN AfterGroup(P)
       ELSE IF Buf(P) = <<>>
            THEN IF g.pipelined THEN Raised(P, SizedGroupError) ELSE Yield(P)
       ELSE IF Buf(P)[1].k # "sig" THEN AttachmentError(P, ExtractionError)
       ELSE add(Buf(P)[1].siger)

\* the generator runs from where it stands to its next stop
ParserStep(P) ==
    CASE P.g.pc = "idle" ->
            IF P.ims = <<>> THEN [P EXCEPT !.g.pc = "done", !.halt = TRUE]
            ELSE IF sniff(P.ims) # "msg" THEN Raised(P, ColdStartError)
            ELSE [P EXCEPT !.g = [Fresh EXCEPT !.pc = "body"]]
      [] P.g.pc = "body" -> ExtractBody(P)
      [] P.g.pc = "atts" -> IF P.ims = <<>> THEN Yield(P) ELSE FirstCounter(P)
      [] P.g.pc = "pags" -> ExtractGroup(P)
      [] P.g.pc = "item" -> ExtractItem(P)
      [] P.g.pc = "next" -> IF P.ims = <<>> THEN Yield(P) ELSE Boundary(P)
      [] P.g.pc = "dispatch" -> Dispatch(P)
      [] OTHER -> Yield(P)

RECURSIVE Run(_)
Run(P) == IF P.halt THEN P ELSE Run(ParserStep(P))

\* next(processor) in Parser.process: allProcessor runs to its next yield
\* or returns
allProcessor(P) == Run([P EXCEPT !.halt = FALSE])

-----------------------------------------------------------------------------
(* The state machine *)

\* the store, the key states and the cues as one value
St ==
    [kevers |-> kevers, evts |-> evts, kels |-> kels, fels |-> fels,
     sigs |-> sigs, wigs |-> wigs, dtss |-> dtss, aess |-> aess,
     pdes |-> pdes, ooes |-> ooes, pses |-> pses, pwes |-> pwes,
     ldes |-> ldes, uwes |-> uwes, ures |-> ures, vres |-> vres,
     rcts |-> rcts, vrcs |-> vrcs, cues |-> cues, acc |-> acc]

Commit(S) ==
    /\ kevers' = S.kevers /\ evts' = S.evts /\ kels' = S.kels
    /\ fels' = S.fels /\ sigs' = S.sigs /\ wigs' = S.wigs
    /\ dtss' = S.dtss /\ aess' = S.aess /\ pdes' = S.pdes
    /\ ooes' = S.ooes /\ pses' = S.pses /\ pwes' = S.pwes
    /\ ldes' = S.ldes /\ uwes' = S.uwes /\ ures' = S.ures /\ vres' = S.vres
    /\ rcts' = S.rcts /\ vrcs' = S.vrcs /\ cues' = S.cues /\ acc' = S.acc

Empty == <<>>

\* Kevery.__init__ over an empty Baser
InitStore(p, o, l, d) ==
    /\ kevers = [a \in DOMAIN Prefixes |-> NoKever]
    /\ evts = Empty /\ kels = Empty /\ fels = Empty /\ sigs = Empty
    /\ wigs = Empty /\ dtss = Empty /\ aess = Empty /\ pdes = Empty
    /\ ooes = Empty /\ pses = Empty /\ pwes = Empty /\ ldes = Empty
    /\ uwes = Empty /\ ures = Empty /\ vres = Empty
    /\ rcts = Empty /\ vrcs = Empty
    /\ cues = <<>>
    /\ opre = o /\ local = l /\ direct = d
    /\ now = 0
    /\ acc = Empty
    /\ nmsgs = 0
    /\ pool = p

\* the same, with no stream and a parser that has not started
InitWith(p, o, l, d) ==
    /\ InitStore(p, o, l, d)
    /\ ims = <<>> /\ gen = Fresh /\ dispatched = <<>> /\ framed = TRUE
    /\ pipeline = FALSE

\* the readings of the wall clock: the start, and the first second after
\* each of the two escrow timeouts
Clock == {0, TimeoutOOE + 1, TimeoutPSE + 1}

\* the readings of a run of receipts: the last second before each timeout too
ClockRcts == Clock \cup {TimeoutOOE, TimeoutURE}

\* the messages a run may feed
Msgs ==
    CASE pool = "chain" -> ChainMsgs
      [] pool = "sigs" -> SigMsgs
      [] pool = "wits" -> WitMsgs
      [] pool = "dels" -> DelMsgs
      [] pool = "recovery" -> RecoveryMsgs
      [] pool = "receipts" -> ReceiptedMsgs
      [] pool = "rcts" -> RcMsgs
      [] pool = "shrink" -> ShrinkMsgs
      [] pool = "replay" -> ReplayMsgs

\* the witness receipts a run may feed
Rcts ==
    IF pool = "receipts" THEN RctMsgs
    ELSE IF pool = "rcts" THEN {Rct("A", 0, "w0", <<<<1, "W2">>>>)}
    ELSE {Rct("A", 0, "a0", <<<<0, "W1">>>>)}

\* the number of inputs a run takes
Budget == IF pool = "recovery" THEN MaxRecovery ELSE MaxMsgs

\* a message arrives: Kevery.processEvent, whatever it raises
ProcessEvent ==
    /\ nmsgs < Budget
    /\ \E m \in Msgs :
         Commit(processEvent(St, m.serder, m.sigers, m.wigers,
                             m.seqner, m.diger).S)
    /\ nmsgs' = nmsgs + 1
    /\ UNCHANGED <<opre, local, direct, now, pool>>
    /\ UNCHANGED pvars

\* a witness receipt arrives: Kevery.processReceiptWitness, whatever it raises
ProcessReceiptWitness ==
    /\ nmsgs < Budget
    /\ \E r \in Rcts : Commit(processReceiptWitness(St, r, r.wigers).S)
    /\ nmsgs' = nmsgs + 1
    /\ UNCHANGED <<opre, local, direct, now, pool>>
    /\ UNCHANGED pvars

ProcessEscrowUnverWitness ==
    /\ Commit(processEscrowUnverWitness(St))
    /\ UNCHANGED <<opre, local, direct, now, nmsgs, pool>>
    /\ UNCHANGED pvars

ProcessEscrowOutOfOrders ==
    /\ Commit(processEscrowOutOfOrders(St))
    /\ UNCHANGED <<opre, local, direct, now, nmsgs, pool>>
    /\ UNCHANGED pvars

ProcessEscrowPartialSigs ==
    /\ Commit(processEscrowPartialSigs(St))
    /\ UNCHANGED <<opre, local, direct, now, nmsgs, pool>>
    /\ UNCHANGED pvars

ProcessEscrowPartialWigs ==
    /\ Commit(processEscrowPartialWigs(St))
    /\ UNCHANGED <<opre, local, direct, now, nmsgs, pool>>
    /\ UNCHANGED pvars

ProcessEscrowDuplicitous ==
    /\ Commit(processEscrowDuplicitous(St))
    /\ UNCHANGED <<opre, local, direct, now, nmsgs, pool>>
    /\ UNCHANGED pvars

\* a receipt with couples arrives: Kevery.processReceipt, whatever it raises
ProcessReceipt ==
    /\ nmsgs < Budget
    /\ \E r \in RcCouples : Commit(processReceipt(St, r, r.cigars).S)
    /\ nmsgs' = nmsgs + 1
    /\ UNCHANGED <<opre, local, direct, now, pool>>
    /\ UNCHANGED pvars

\* a receipt with transferable signature groups arrives:
\* Kevery.processReceiptTrans, whatever it raises
ProcessReceiptTrans ==
    /\ nmsgs < Budget
    /\ \E r \in RcGroups : Commit(processReceiptTrans(St, r, r.tsgs).S)
    /\ nmsgs' = nmsgs + 1
    /\ UNCHANGED <<opre, local, direct, now, pool>>
    /\ UNCHANGED pvars

ProcessEscrowUnverNonTrans ==
    /\ Commit(processEscrowUnverNonTrans(St))
    /\ UNCHANGED <<opre, local, direct, now, nmsgs, pool>>
    /\ UNCHANGED pvars

ProcessEscrowUnverTrans ==
    /\ Commit(processEscrowUnverTrans(St))
    /\ UNCHANGED <<opre, local, direct, now, nmsgs, pool>>
    /\ UNCHANGED pvars

\* the wall clock of a run of receipts moves on to any later reading
TickRcts ==
    /\ nmsgs < Budget
    /\ \E t \in ClockRcts : t > now /\ now' = t
    /\ nmsgs' = nmsgs + 1
    /\ UNCHANGED <<kevers, evts, kels, fels, sigs, wigs, dtss, aess, pdes, ooes,
                   pses, pwes, ldes, uwes, ures, vres, rcts, vrcs, cues, opre,
                   local, direct, acc, pool>>
    /\ UNCHANGED pvars

\* the wall clock moves on to its next reading
Tick ==
    /\ nmsgs < Budget
    /\ \E t \in Clock :
         /\ t > now
         /\ \A u \in Clock : u > now => t <= u
         /\ now' = t
    /\ nmsgs' = nmsgs + 1
    /\ UNCHANGED <<kevers, evts, kels, fels, sigs, wigs, dtss, aess, pdes, ooes,
                   pses, pwes, ldes, uwes, ures, vres, rcts, vrcs, cues, opre,
                   local, direct, acc, pool>>
    /\ UNCHANGED pvars

Init == InitWith("chain", NoPre, FALSE, TRUE)

Next ==
    \/ ProcessEvent
    \/ ProcessReceiptWitness
    \/ ProcessEscrowOutOfOrders
    \/ ProcessEscrowUnverWitness
    \/ ProcessEscrowPartialSigs
    \/ ProcessEscrowPartialWigs
    \/ ProcessEscrowDuplicitous
    \/ Tick

Spec == Init /\ [][Next]_vars

\* a node without a prefix of its own, fed multi-signature events
InitSigs == InitWith("sigs", NoPre, FALSE, TRUE)

SpecSigs == InitSigs /\ [][Next]_vars

\* a node without a prefix of its own, fed the events of M up to a rotation
\* to fewer keys
InitShrink == InitWith("shrink", NoPre, FALSE, TRUE)

SpecShrink == InitShrink /\ [][Next]_vars

\* a node fed witnessed events: one without a prefix of its own, the
\* controller, one of the witnesses, and another validator
InitWits ==
    \E o \in {<<NoPre, FALSE>>, <<"A", TRUE>>, <<"W1", FALSE>>, <<"V", FALSE>>} :
        InitWith("wits", o[1], o[2], TRUE)

SpecWits == InitWits /\ [][Next]_vars

\* a node without a prefix of its own, fed a delegator and its delegate
InitDels == InitWith("dels", NoPre, FALSE, TRUE)

SpecDels == InitDels /\ [][Next]_vars

\* a node without a prefix of its own, fed a chain with a recovery
InitRecovery == InitWith("recovery", NoPre, FALSE, TRUE)

SpecRecovery == InitRecovery /\ [][Next]_vars

\* a node fed a witnessed inception and witness receipts of it: one without
\* a prefix of its own, and the witness W3
InitReceipts ==
    \E o \in {NoPre, "W3"} : InitWith("receipts", o, FALSE, TRUE)

SpecReceipts == InitReceipts /\ [][Next]_vars

\* a node fed events and receipts of them, with couples and with
\* transferable signature groups: one without a prefix of its own, and the
\* receipters D and W4 receiving their own receipts back
InitRcts ==
    \E o \in {NoPre, "D", "W4"} : InitWith("rcts", o, FALSE, TRUE)

NextRcts ==
    \/ ProcessEvent
    \/ ProcessReceiptWitness
    \/ ProcessReceipt
    \/ ProcessReceiptTrans
    \/ ProcessEscrowOutOfOrders
    \/ ProcessEscrowUnverWitness
    \/ ProcessEscrowPartialWigs
    \/ ProcessEscrowPartialSigs
    \/ ProcessEscrowDuplicitous
    \/ ProcessEscrowUnverNonTrans
    \/ ProcessEscrowUnverTrans
    \/ TickRcts

SpecRcts == InitRcts /\ [][NextRcts]_vars

\* an event message with attached receipts arrives: the dispatch of
\* Parser.msgProcessor, whatever it raises
DispatchEvent ==
    /\ nmsgs < Budget
    /\ \E m \in ReplayMsgs :
         Commit(dispatchEvent(St, m.serder, m.sigers, m.wigers, m.seqner,
                              m.diger, m.cigars, m.trqs).S)
    /\ nmsgs' = nmsgs + 1
    /\ UNCHANGED <<opre, local, direct, now, pool>>
    /\ UNCHANGED pvars

\* a node without a prefix of its own, fed events with receipts attached
InitReplay == InitWith("replay", NoPre, FALSE, TRUE)

NextReplay ==
    \/ DispatchEvent
    \/ ProcessEscrowOutOfOrders
    \/ ProcessEscrowUnverTrans

SpecReplay == InitReplay /\ [][NextReplay]_vars

-----------------------------------------------------------------------------
(* The parser fed a stream *)

MaxChunks == 3

K0Sig(d) == <<Siger(0, "K0", d)>>

\* what arrives on the stream in one piece: whole messages that are valid in
\* order (a0, x1, and x2 with its attachments pipelined), a message whose
\* pipelined group is short of the signature its counter announces, one whose
\* pipelined group holds text that is no signature, one with a counter of an
\* unknown code, a byte of the free tritet, attachments without a body, the
\* two halves of a body, a body without attachments, a body with the
\* counter of a pipelined group that has not arrived, and a witnessed
\* inception with the signature of a witness
Chunks ==
    { Messagize("a0", K0Sig("a0"), <<>>),
      Messagize("x1", K0Sig("x1"), <<>>),
      Pipelined("x2", K0Sig("x2"), <<>>, 2),
      <<BodyU("x1"), CtrU(AttachedMaterialQuadlets, 2),
        CtrU(ControllerIdxSigs, 2), SigU(Siger(0, "K0", "x1"))>>,
      <<BodyU("x1"), CtrU(AttachedMaterialQuadlets, 2),
        CtrU(ControllerIdxSigs, 1), BadU>>,
      <<BodyU("x1"), CtrU(UnknownCode, 1), SigU(Siger(0, "K0", "x1"))>>,
      <<FreeU>>,
      <<CtrU(ControllerIdxSigs, 1), SigU(Siger(0, "K0", "a0"))>>,
      <<HeadU("x2")>>,
      <<TailU("x2")>>,
      <<BodyU("a0")>>,
      <<BodyU("x2"), CtrU(AttachedMaterialQuadlets, 2)>>,
      Messagize("w0", K0Sig("w0"), <<Siger(0, "W1", "w0")>>) }

\* the parser over the current state
PSt == [ims |-> ims, g |-> gen, K |-> St, out |-> dispatched, halt |-> FALSE]

CommitParser(P) ==
    /\ Commit(P.K)
    /\ ims' = P.ims /\ gen' = P.g /\ dispatched' = P.out

\* the variables of the Kevery and its database
kvars == <<kevers, evts, kels, fels, sigs, wigs, dtss, aess, pdes, ooes, pses,
           pwes, ldes, uwes, ures, vres, rcts, vrcs, cues, acc>>

\* bytes arrive: ims.extend(...)
Arrive ==
    /\ nmsgs < MaxChunks
    /\ \E c \in Chunks : ims' = ims \o c
    /\ nmsgs' = nmsgs + 1
    /\ UNCHANGED kvars
    /\ UNCHANGED <<opre, local, direct, now, pool, gen, dispatched, framed,
                   pipeline>>

\* next(processor) in Parser.process
ParserNext ==
    /\ gen.pc # "done"
    /\ CommitParser(allProcessor(PSt))
    /\ UNCHANGED <<opre, local, direct, now, nmsgs, pool, framed, pipeline>>

\* Parser.process is called again after it returned: a new generator
Process ==
    /\ gen.pc = "done"
    /\ gen' = Fresh
    /\ UNCHANGED kvars
    /\ UNCHANGED <<opre, local, direct, now, nmsgs, pool, ims, dispatched,
                   framed, pipeline>>

\* A stream that arrives in pieces while the parser runs, framed or not
InitParser ==
    /\ InitStore("parser", NoPre, FALSE, TRUE)
    /\ ims = <<>> /\ gen = Fresh /\ dispatched = <<>>
    /\ framed \in BOOLEAN
    /\ pipeline = FALSE

NextParser ==
    \/ Arrive
    \/ ParserNext
    \/ Process

SpecParser == InitParser /\ [][NextParser]_vars

\* the same with the parser's pipeline option set
InitPipeline ==
    /\ InitStore("parser", NoPre, FALSE, TRUE)
    /\ ims = <<>> /\ gen = Fresh /\ dispatched = <<>>
    /\ framed \in BOOLEAN
    /\ pipeline = TRUE

SpecPipeline == InitPipeline /\ [][NextParser]_vars

\* the fixed buffers: up to MaxChunks pieces one after the other
RECURSIVE Buffers(_)
Buffers(n) ==
    IF n = 0 THEN {<<>>}
    ELSE Buffers(n - 1) \cup {b \o c : b \in Buffers(n - 1), c \in Chunks}

\* Parser.process(ims=...) is called with a fixed buffer
ProcessBuffer ==
    /\ gen = Fresh /\ nmsgs = 0
    /\ ims' \in Buffers(MaxChunks) \ {<<>>}
    /\ nmsgs' = 1
    /\ UNCHANGED kvars
    /\ UNCHANGED <<opre, local, direct, now, pool, gen, dispatched, framed,
                   pipeline>>

\* Parser.process over a fixed buffer: nothing arrives after the call, the
\* generator is resumed until it returns
InitProcess == InitParser

NextProcess ==
    \/ ProcessBuffer
    \/ ParserNext

SpecProcess == InitProcess /\ [][NextProcess]_vars /\ WF_vars(ParserNext)

-----------------------------------------------------------------------------
(* Properties *)

Ests == {icp, dip, rot, drt}

\* the first seen history of prefix a
Hist(a) == Get(acc, a, <<>>)

\* the last establishment event accepted before the j-th acceptance of a
PriorEst(a, j) ==
    LET J == {h \in 1..(j - 1) : Serder(Hist(a)[h].d).t \in Ests}
    IN Serder(Hist(a)[CHOOSE h \in J : \A g \in J : g <= h].d)

\* C1: for every prefix the first seen ordinals given to its accepted events
\* are 0, 1, ..., n-1 in the order of acceptance, without gap or repeat: the
\* j-th acceptance gets ordinal j - 1, the first seen log holds exactly the
\* accepted events at those ordinals, and the key state carries the last one.
C1_FirstSeenOrdinals ==
    \A a \in DOMAIN Prefixes :
        /\ Len(Hist(a)) = Len(Get(fels, a, <<>>))
        /\ \A j \in 1..Len(Hist(a)) :
              Hist(a)[j].fn = j - 1 /\ fels[a][j] = Hist(a)[j].d
        /\ kevers[a] # NoKever => kevers[a].fn = Len(Hist(a)) - 1

\* three events of A first seen out of four messages, none left in escrow
C1_Witness ==
    /\ Len(Hist("A")) = 3
    /\ kevers["A"].fn = 2
    /\ nmsgs = 4
    /\ now = 0
    /\ DOMAIN ooes = {} /\ DOMAIN ldes = {} /\ DOMAIN pses = {}

\* C2: every accepted rotation reveals a threshold and keys whose commitment
\* is the next key commitment n of the last establishment event accepted
\* before it for that prefix.
C2_NextKeyCommitment ==
    \A a \in DOMAIN Prefixes :
        \A j \in 1..Len(Hist(a)) :
            Serder(Hist(a)[j].d).t \in {rot, drt} =>
                /\ PriorEst(a, j).n # EmptyN
                /\ PriorEst(a, j).n =
                      Nexter(Limen(Serder(Hist(a)[j].d).kt),
                             Serder(Hist(a)[j].d).k)

\* a rotation accepted after a rotation and an interaction event
C2_Witness ==
    /\ Len(Hist("A")) = 4
    /\ Serder(Hist("A")[2].d).t = rot
    /\ Serder(Hist("A")[3].d).t = ixn
    /\ Serder(Hist("A")[4].d).t = rot

\* the indices of the signatures among sigers that verify for digest d under
\* the key list keys
VerifiedIndices(sigers, keys, d) ==
    {sg.index : sg \in {x \in Range(sigers) :
                          /\ x.index < Len(keys)
                          /\ x.key = keys[x.index + 1]
                          /\ x.msg = d}}

\* the establishment event whose keys and threshold apply to the j-th
\* acceptance of a: the event itself, or the last one accepted before it
KeyEst(a, j) ==
    IF Serder(Hist(a)[j].d).t \in Ests THEN Serder(Hist(a)[j].d)
    ELSE PriorEst(a, j)

\* C3: an event is accepted only if the indices of the distinct attached
\* signatures that verify under the applicable keys reach the applicable
\* threshold; a signature attached twice counts once.
C3_ThresholdMet ==
    \A a \in DOMAIN Prefixes :
        \A j \in 1..Len(Hist(a)) :
            /\ KeyEst(a, j).kt > 0
            /\ Cardinality(VerifiedIndices(Hist(a)[j].sigers, KeyEst(a, j).k,
                                           Hist(a)[j].d)) >= KeyEst(a, j).kt

\* an event accepted with a signature attached twice next to another one,
\* after an interaction event was accepted too
C3_Witness ==
    /\ Len(Hist("M")) = 2
    /\ Len(Hist("M")[1].sigers) = 3
    /\ Cardinality(Range(Hist("M")[1].sigers)) = 2
    /\ Serder(Hist("M")[2].d).t = ixn

\* the events on the prior digest chain from d back to the inception, d included
RECURSIVE Chain(_)
Chain(d) == IF d \notin Digs THEN {} ELSE {d} \cup Chain(EventOf[d].p)

\* the j-th acceptance of a is a recovery rotation: its sequence number is
\* not above the one the key state had
Recovery(a, j) ==
    /\ Serder(Hist(a)[j].d).t \in {rot, drt}
    /\ Serder(Hist(a)[j].d).s <= Hist(a)[j].kever.sn

\* C4: of two accepted events of a prefix, the earlier one is on the prior
\* digest chain of the later one, or the later one is on a branch that starts
\* with a recovery rotation accepted after the earlier one and superseding it.
C4_CausalOrder ==
    \A a \in DOMAIN Prefixes :
        \A j2 \in 1..Len(Hist(a)) : \A j1 \in 1..(j2 - 1) :
            \/ Hist(a)[j1].d \in Chain(Hist(a)[j2].d)
            \/ \E jr \in (j1 + 1)..j2 :
                  /\ Recovery(a, jr)
                  /\ Hist(a)[jr].d \in Chain(Hist(a)[j2].d)
                  /\ Serder(Hist(a)[jr].d).s <= Serder(Hist(a)[j1].d).s
                  /\ Hist(a)[j1].d \notin Chain(Hist(a)[jr].d)

\* an interaction event accepted on the branch of a recovery rotation that
\* superseded an interaction event
C4_Witness ==
    /\ Len(Hist("A")) = 4
    /\ Recovery("A", 3)
    /\ Serder(Hist("A")[4].d).t = ixn
    /\ Hist("A")[2].d \notin Chain(Hist("A")[4].d)

\* C5: an accepted inception has sequence number 0; any other accepted event
\* has the key state's sequence number plus one, but for a recovery rotation,
\* whose sequence number is above the last establishment event's and at most
\* the key state's.
C5_SequenceNumbers ==
    \A a \in DOMAIN Prefixes :
        \A j \in 1..Len(Hist(a)) :
            IF Serder(Hist(a)[j].d).t \in {icp, dip}
            THEN Serder(Hist(a)[j].d).s = 0 /\ Hist(a)[j].kever = NoKever
            ELSE /\ Hist(a)[j].kever # NoKever
                 /\ \/ Serder(Hist(a)[j].d).s = Hist(a)[j].kever.sn + 1
                    \/ /\ Serder(Hist(a)[j].d).t \in {rot, drt}
                       /\ Hist(a)[j].kever.lastEst.s < Serder(Hist(a)[j].d).s
                       /\ Serder(Hist(a)[j].d).s <= Hist(a)[j].kever.sn

\* a recovery rotation accepted at the sequence number of the first of two
\* interaction events
C5_Witness ==
    /\ Len(Hist("A")) = 4
    /\ Recovery("A", 4)
    /\ Serder(Hist("A")[4].d).s = 1
    /\ Hist("A")[4].kever.sn = 2

\* C6: once the key state of a prefix has an empty next key commitment, no
\* step accepts another event for it or changes its key state.
C6_Abandoned ==
    [][\A a \in DOMAIN Prefixes :
          (kevers[a] # NoKever /\ kevers[a].nexter = EmptyN) =>
              /\ kevers'[a] = kevers[a]
              /\ Get(acc', a, <<>>) = Get(acc, a, <<>>)
              /\ Get(fels', a, <<>>) = Get(fels, a, <<>>)]_vars

\* A rotated to an empty commitment, and the interaction event that waited
\* out of order for that rotation was then processed and dropped
C6_Witness ==
    /\ kevers["A"] # NoKever
    /\ kevers["A"].nexter = EmptyN
    /\ Len(Hist("A")) = 2
    /\ <<"A", "z2">> \in DOMAIN evts
    /\ <<"A", 2>> \notin DOMAIN ooes

NoDup(q) == \A j, h \in 1..Len(q) : q[j] = q[h] => j = h

\* C7: every accepted rotation has cuts and adds without duplicates, every
\* cut among the witnesses in force before it, no add among them, and no
\* prefix both cut and added.
C7_CutsAdds ==
    \A a \in DOMAIN Prefixes :
        \A j \in 1..Len(Hist(a)) :
            Serder(Hist(a)[j].d).t \in {rot, drt} =>
                /\ NoDup(Serder(Hist(a)[j].d).br)
                /\ NoDup(Serder(Hist(a)[j].d).ba)
                /\ Range(Serder(Hist(a)[j].d).br)
                      \subseteq Range(Hist(a)[j].kever.wits)
                /\ Range(Serder(Hist(a)[j].d).ba)
                      \cap Range(Hist(a)[j].kever.wits) = {}
                /\ Range(Serder(Hist(a)[j].d).br)
                      \cap Range(Serder(Hist(a)[j].d).ba) = {}

\* a rotation accepted that cuts one witness and adds another
C7_Witness ==
    /\ Len(Hist("A")) = 2
    /\ Hist("A")[2].d = "wr1"
    /\ Hist("A")[2].kever.wits = <<"W1", "W2", "W3">>

\* C8: after an accepted rotation the witnesses in key state are the previous
\* ones without the cuts, in their previous order, followed by the adds in
\* the order of the event.
C8_WitnessList ==
    \A a \in DOMAIN Prefixes :
        \A j \in 1..Len(Hist(a)) :
            Serder(Hist(a)[j].d).t \in {rot, drt} =>
                Hist(a)[j].after.wits =
                    SelectSeq(Hist(a)[j].kever.wits,
                              LAMBDA w : w \notin Range(Serder(Hist(a)[j].d).br))
                    \o Serder(Hist(a)[j].d).ba

\* a rotation accepted that cuts the third and the first witness and adds two
C8_Witness ==
    /\ Len(Hist("A")) = 2
    /\ Hist("A")[2].d = "wr1o"
    /\ kevers["A"].wits = <<"W2", "W5", "W4">>

\* C9: in every key state the witness threshold is 0 when there are no
\* witnesses, and otherwise at least 1 and at most their number.
C9_Toad ==
    \A a \in DOMAIN Prefixes :
        kevers[a] # NoKever =>
            IF kevers[a].wits = <<>> THEN kevers[a].toad = 0
            ELSE 1 <= kevers[a].toad /\ kevers[a].toad <= Len(kevers[a].wits)

\* a rotation accepted that cuts every witness and sets the threshold to 0
C9_Witness ==
    /\ Len(Hist("A")) = 2
    /\ Hist("A")[2].kever.toad = 2
    /\ kevers["A"].wits = <<>>
    /\ kevers["A"].toad = 0

\* the j-th acceptance of a came with the witness threshold of distinct
\* verified witness signatures
Witnessed(a, j) ==
    Cardinality(VerifiedIndices(Hist(a)[j].wigers, Hist(a)[j].after.wits,
                                Hist(a)[j].d)) >= Hist(a)[j].after.toad

\* C10: when the applicable witness list is not empty and the node is neither
\* the controller of the prefix nor one of those witnesses, an event is
\* accepted only with the witness threshold of distinct verified witness
\* signatures.
C10_WitnessThreshold ==
    \A a \in DOMAIN Prefixes :
        \A j \in 1..Len(Hist(a)) :
            (/\ Hist(a)[j].after.wits # <<>>
             /\ opre # a
             /\ opre \notin Range(Hist(a)[j].after.wits)) => Witnessed(a, j)

\* the same for every node that is not the controller, a witness included
C10_NotController ==
    \A a \in DOMAIN Prefixes :
        \A j \in 1..Len(Hist(a)) :
            (Hist(a)[j].after.wits # <<>> /\ opre # a) => Witnessed(a, j)

\* on a node that is neither controller nor witness, an inception is accepted
\* with two witness signatures while a rotation with one waits in the
\* partially witnessed escrow
C10_Witness ==
    /\ opre \notin {"A", "W1"}
    /\ Len(Hist("A")) = 1
    /\ Witnessed("A", 1)
    /\ kevers["A"].toad = 2
    /\ Get(pwes, <<"A", 1>>, <<>>) = <<"wr1">>
    /\ Len(Get(wigs, <<"A", "wr1">>, <<>>)) = 1

\* the delegator of the j-th acceptance of a: named by a delegated inception,
\* kept in the key state for a delegated rotation
DelegatorOf(a, j) ==
    IF Serder(Hist(a)[j].d).t = dip THEN Serder(Hist(a)[j].d).di
    ELSE Hist(a)[j].kever.delegator

\* C11: a delegated inception or rotation is accepted only if its delegator
\* has a key state that does not carry the do-not-delegate trait, the
\* delegator has an accepted event with the sequence number and the digest of
\* the attached authorizer couple, and the seals of that event include the
\* prefix, sequence number and digest of the delegated event.
C11_Delegation ==
    \A a \in DOMAIN Prefixes :
        \A j \in 1..Len(Hist(a)) :
            Serder(Hist(a)[j].d).t \in {dip, drt} =>
                /\ DelegatorOf(a, j) \in DOMAIN Prefixes
                /\ kevers[DelegatorOf(a, j)] # NoKever
                /\ ~kevers[DelegatorOf(a, j)].doNotDelegate
                /\ Hist(a)[j].diger \in Digs
                /\ Serder(Hist(a)[j].diger).s = Hist(a)[j].seqner
                /\ \E h \in 1..Len(Hist(DelegatorOf(a, j))) :
                      Hist(DelegatorOf(a, j))[h].d = Hist(a)[j].diger
                /\ \E n \in 1..Len(Serder(Hist(a)[j].diger).a) :
                      Serder(Hist(a)[j].diger).a[n] =
                          Seal(a, Serder(Hist(a)[j].d).s, Hist(a)[j].d)

\* a delegated inception received before its delegating event and accepted
\* out of the partially signed escrow, then a delegated rotation accepted
C11_Witness ==
    /\ Len(Hist("E")) = 2
    /\ Hist("E")[1].d = "e0" /\ Hist("E")[1].via = "pse"
    /\ Hist("E")[2].d = "e1"
    /\ Hist("E")[2].seqner = 1 /\ Hist("E")[2].diger = "dx1"
    /\ kevers["E"].delegator = "D"

\* icp, rot at 1, ixn at 2 and ixn at 3 were accepted, then the rotation at 2
\* whose prior is the rotation at 1
Recovered == Get(fels, "A", <<>>) = <<"a0", "r1", "y2", "y3", "q2">>

\* C12: after that recovery the KEL of the prefix iterates as icp, rot at 1,
\* the superseded ixn at 2, the recovery rot at 2, the superseded ixn at 3:
\* the superseded events are still returned; the last entry at 2 is the
\* recovery rotation, and the last entries iterate as icp, rot, recovery rot,
\* ixn at 3.
C12_KelAfterRecovery ==
    Recovered =>
        /\ getKelIter(kels, "A") = <<"a0", "r1", "y2", "q2", "y3">>
        /\ getKelEstIter(kels, "A") = <<"a0", "r1", "q2", "y3">>
        /\ GetIoLast(kels, snKey("A", 2)) = "q2"

\* C12 as stated: after that recovery an iteration of the KEL yields exactly
\* icp, rot at 1, recovery rot at 2
C12_SupersededGone ==
    Recovered =>
        \/ getKelIter(kels, "A") = <<"a0", "r1", "q2">>
        \/ getKelEstIter(kels, "A") = <<"a0", "r1", "q2">>

\* the recovery has been accepted as the fifth event of the prefix
C12_Witness ==
    /\ Recovered
    /\ Len(Hist("A")) = 5 /\ Recovery("A", 5)
    /\ kevers["A"].serder = "q2" /\ kevers["A"].sn = 2
    /\ kevers["A"].verfers = <<"K2">>

\* every entry of the KEL index stays where it is, and the stored body of
\* every accepted event stays what it is
KelKept ==
    /\ \A k \in DOMAIN kels :
          /\ k \in DOMAIN kels'
          /\ Len(kels'[k]) >= Len(kels[k])
          /\ SubSeq(kels'[k], 1, Len(kels[k])) = kels[k]
    /\ \A a \in DOMAIN Prefixes :
          \A j \in 1..Len(Hist(a)) :
              /\ dgKey(a, Hist(a)[j].d) \in DOMAIN evts
              /\ dgKey(a, Hist(a)[j].d) \in DOMAIN evts'
              /\ evts'[dgKey(a, Hist(a)[j].d)] = evts[dgKey(a, Hist(a)[j].d)]

\* every accepted recovery rotation is the last entry at its sequence number,
\* after the event it superseded
RecoveryLast ==
    \A a \in DOMAIN Prefixes :
        \A j \in 1..Len(Hist(a)) :
            Recovery(a, j) =>
                /\ GetIoLast(kels, snKey(a, Serder(Hist(a)[j].d).s))
                      = Hist(a)[j].d
                /\ Len(kels[snKey(a, Serder(Hist(a)[j].d).s)]) >= 2
                /\ \E h \in 1..(j - 1) :
                      Hist(a)[h].d = kels[snKey(a, Serder(Hist(a)[j].d).s)][1]

\* C13: no step, whether acceptance, duplicate, recovery, escrow pass or
\* expiry, removes or replaces an entry of the KEL index or the stored body
\* of an accepted event; a recovery rotation is appended after the event it
\* supersedes and is what get-last returns at its sequence number.
C13_KelAppendOnly == []RecoveryLast /\ [][KelKept]_vars

\* a recovery rotation over an interaction event, and that event received
\* again afterwards
C13_Witness ==
    /\ Get(kels, snKey("A", 1), <<>>) = <<"x1", "r1">>
    /\ kevers["A"].serder = "r1"
    /\ Get(ldes, snKey("A", 1), <<>>) = <<"x1">>
    /\ Recovery("A", 3)
    /\ nmsgs = 4

\* what Kevery.processEvent makes of message m in the current state
Processed(m) ==
    processEvent(St, m.serder, m.sigers, m.wigers, m.seqner, m.diger)

\* m is a rotation that processEvent takes as a recovery or as the next
\* event: accepted, or escrowed until its signatures are complete
ValidRotation(m) ==
    /\ m.serder.t \in {rot, drt}
    /\ Processed(m).err \in {Ok, MissingSignatureError,
                              MissingWitnessSignatureError,
                              MissingDelegationError}

\* C14: an event for a known prefix at a sequence number that holds an
\* accepted event, with a digest other than those accepted there, that is not
\* a valid recovery rotation, is put in the likely duplicitous escrow and
\* leaves the key state, the KEL and the first seen log as they are.
C14_LikelyDuplicitous ==
    \A m \in Msgs :
        (/\ kevers[m.serder.i] # NoKever
         /\ snKey(m.serder.i, m.serder.s) \in DOMAIN kels
         /\ m.serder.d \notin Range(kels[snKey(m.serder.i, m.serder.s)])
         /\ ~ValidRotation(m))
        => /\ m.serder.d \in
                Range(Get(Processed(m).S.ldes,
                          snKey(m.serder.i, m.serder.s), <<>>))
           /\ Processed(m).S.kevers = kevers
           /\ Processed(m).S.kels = kels
           /\ Processed(m).S.fels = fels

\* the event of message m has been accepted before
AlreadyAccepted(m) ==
    \E j \in 1..Len(Hist(m.serder.i)) : Hist(m.serder.i)[j].d = m.serder.d

\* C15: receiving an event that has been accepted before gives out no first
\* seen ordinal, adds nothing to the first seen log or the KEL index, and
\* leaves every key state as it is, in every state the node can be in and so
\* however often it is repeated.
C15_DuplicateIdempotent ==
    \A m \in Msgs :
        AlreadyAccepted(m) =>
            /\ Processed(m).S.fels = fels
            /\ Processed(m).S.kels = kels
            /\ Processed(m).S.kevers = kevers
            /\ Processed(m).S.acc = acc

\* an inception accepted with two signatures was received again with a third
\* one, which was stored, and once more
C15_Witness ==
    /\ Len(Hist("M")) = 1
    /\ Hist("M")[1].via = "msg"
    /\ Hist("M")[1].sigers = <<Siger(0, "Ka", "m0"), Siger(1, "Kb", "m0")>>
    /\ Get(sigs, dgKey("M", "m0"), <<>>) =
          <<Siger(0, "Ka", "m0"), Siger(1, "Kb", "m0"), Siger(2, "Kc", "m0")>>
    /\ Get(fels, "M", <<>>) = <<"m0">>
    /\ kevers["M"].fn = 0
    /\ nmsgs = 3

\* the signatures of message m that verify under the keys of the
\* establishment event in force at its sequence number and are not stored
\* under its digest yet
NewSigs(m) ==
    LET keys == Serder(fetchEstEvent(St, m.serder.i, m.serder.s)).k
    IN {sg \in Range(m.sigers) :
          /\ sg.index < Len(keys)
          /\ VerferVerify(keys[sg.index + 1], sg, m.serder)
          /\ sg \notin Range(Get(sigs, dgKey(m.serder.i, m.serder.d), <<>>))}

\* C16: when an event accepted before is received again with a verified
\* signature that was not stored, the signature is added to the signatures
\* stored under the digest of that event, and the signatures stored under
\* every other digest are as before.
C16_SignatureStored ==
    \A m \in Msgs :
        (AlreadyAccepted(m) /\ NewSigs(m) # {}) =>
            /\ NewSigs(m) \subseteq
                  Range(Get(Processed(m).S.sigs,
                            dgKey(m.serder.i, m.serder.d), <<>>))
            /\ \A k \in DOMAIN Processed(m).S.sigs :
                  k # dgKey(m.serder.i, m.serder.d) =>
                      Processed(m).S.sigs[k] = Get(sigs, k, <<>>)

\* the messages that were accepted for prefix a, in the order they came
Stream(a) ==
    [j \in 1..Len(Hist(a)) |->
       Msg(Hist(a)[j].d, Hist(a)[j].sigers, Hist(a)[j].wigers,
           Hist(a)[j].seqner, Hist(a)[j].diger)]

\* Kevery.processEvent on each message of msgs in turn, whatever it raises
RECURSIVE Feed(_, _)
Feed(S, msgs) ==
    IF msgs = <<>> THEN S
    ELSE Feed(processEvent(S, Head(msgs).serder, Head(msgs).sigers,
                           Head(msgs).wigers, Head(msgs).seqner,
                           Head(msgs).diger).S,
              Tail(msgs))

\* the node has been fed a valid stream of events of prefix a and nothing
\* else: every input was a message that was accepted as it came
FedValidStream(a) ==
    /\ DOMAIN acc = {a}
    /\ nmsgs = Len(Hist(a))
    /\ \A j \in 1..Len(Hist(a)) : Hist(a)[j].via = "msg"

\* C17: feeding a valid stream a second time leaves the KEL, the first seen
\* log and every escrow as they were after the first feeding.
C17_RefeedIdempotent ==
    \A a \in DOMAIN Prefixes :
        FedValidStream(a) =>
            /\ Feed(St, Stream(a)).kels = kels
            /\ Feed(St, Stream(a)).fels = fels
            /\ Feed(St, Stream(a)).ooes = ooes
            /\ Feed(St, Stream(a)).pses = pses
            /\ Feed(St, Stream(a)).pwes = pwes
            /\ Feed(St, Stream(a)).ldes = ldes
            /\ Feed(St, Stream(a)).uwes = uwes
            /\ Feed(St, Stream(a)).pdes = pdes

\* key state, KEL and first seen log of prefix a in S
LogsOf(S, a) ==
    [kever |-> S.kevers[a],
     kel |-> [k \in {x \in DOMAIN S.kels : x[1] = a} |-> S.kels[k]],
     fel |-> Get(S.fels, a, <<>>)]

\* Kevery.processEscrows, the passes over the escrows in their order
processEscrows(S) ==
    processEscrowDuplicitous(
      processEscrowPartialSigs(
        processEscrowPartialWigs(
          processEscrowUnverWitness(
            processEscrowOutOfOrders(S)))))

\* nothing of prefix a has been received: the store holds no entry of it
Unseen(a) ==
    /\ kevers[a] = NoKever
    /\ a \notin DOMAIN acc
    /\ \A k \in DOMAIN ooes \cup DOMAIN pses \cup DOMAIN pwes \cup DOMAIN ldes
                \cup DOMAIN uwes : k[1] # a
    /\ \A k \in DOMAIN dtss \cup DOMAIN evts : k[1] # a

\* mi is the inception and mr a rotation at sn=1 of a prefix nothing has been
\* received of, and the node accepts mi and then mr when they come in order
IcpThenRot(mi, mr) ==
    /\ mi.serder.t \in {icp, dip}
    /\ mr.serder.t \in {rot, drt}
    /\ mr.serder.s = 1
    /\ mr.serder.i = mi.serder.i
    /\ Unseen(mi.serder.i)
    /\ Processed(mi).err = Ok
    /\ Feed(St, <<mi, mr>>).kevers[mi.serder.i].serder = mr.serder.d

\* the rotation first, then the inception, then one pass over the escrows,
\* which starts with the out of order escrow
RotThenIcp(mi, mr) == Feed(Processed(mr).S, <<mi>>)
RotIcpPass(mi, mr) == processEscrows(RotThenIcp(mi, mr))

\* C18: a rotation at sn=1 received before the inception of its prefix is put
\* in the out of order escrow and not accepted; once the inception has been
\* accepted, the next pass over the escrows accepts the rotation and takes
\* it out of the escrow, and key state, KEL and first seen log of the prefix
\* are those of the inception and the rotation received in order.
C18_OutOfOrderPromoted ==
    \A mi \in Msgs : \A mr \in Msgs :
        IcpThenRot(mi, mr) =>
            /\ Processed(mr).err = OutOfOrderError
            /\ mr.serder.d \in
                  Range(Get(Processed(mr).S.ooes, snKey(mr.serder.i, 1), <<>>))
            /\ LogsOf(Processed(mr).S, mr.serder.i) = LogsOf(St, mr.serder.i)
            /\ LogsOf(RotThenIcp(mi, mr), mr.serder.i) =
                  LogsOf(Processed(mi).S, mr.serder.i)
            /\ LogsOf(RotIcpPass(mi, mr), mr.serder.i) =
                  LogsOf(Feed(St, <<mi, mr>>), mr.serder.i)
            /\ mr.serder.d \notin
                  Range(Get(RotIcpPass(mi, mr).ooes, snKey(mr.serder.i, 1), <<>>))

\* the signatures attached to m all index a key of its event, and exactly
\* one of them verifies
OneValidSig(m) ==
    /\ \A sg \in Range(m.sigers) : sg.index < Len(m.serder.k)
    /\ Cardinality(VerifiedIndices(m.sigers, m.serder.k, m.serder.d)) = 1

\* m1 and m2 carry the same inception with threshold 2 over three keys of a
\* prefix nothing has been received of, each with one valid signature, of
\* two different keys
PartlySigned(m1, m2) ==
    /\ m1.serder.t = icp
    /\ m1.serder.kt = 2
    /\ Len(m1.serder.k) = 3
    /\ m2.serder = m1.serder
    /\ Unseen(m1.serder.i)
    /\ OneValidSig(m1)
    /\ OneValidSig(m2)
    /\ VerifiedIndices(m2.sigers, m2.serder.k, m2.serder.d) #
          VerifiedIndices(m1.sigers, m1.serder.k, m1.serder.d)

\* the inception with one signature, then with the other one, then one pass
\* over the escrows
SigThenSig(m1, m2) == Feed(Processed(m1).S, <<m2>>)
SigSigPass(m1, m2) == processEscrows(SigThenSig(m1, m2))

\* C19: an inception with threshold 2 over three keys received with one
\* valid signature is put in the partially signed escrow and not accepted;
\* after it is received again with a second valid signature the next pass
\* over the escrows accepts it and takes it out of the escrow, and first seen
\* ordinal 0 is given to it once: neither another pass nor receiving the two
\* messages again gives out an ordinal.
C19_PartialSigsPromoted ==
    \A m1 \in Msgs : \A m2 \in Msgs :
        PartlySigned(m1, m2) =>
            /\ Processed(m1).err = MissingSignatureError
            /\ m1.serder.d \in
                  Range(Get(Processed(m1).S.pses, snKey(m1.serder.i, 0), <<>>))
            /\ LogsOf(Processed(m1).S, m1.serder.i) = LogsOf(St, m1.serder.i)
            /\ LogsOf(SigThenSig(m1, m2), m1.serder.i) = LogsOf(St, m1.serder.i)
            /\ SigSigPass(m1, m2).kevers[m1.serder.i] # NoKever
            /\ SigSigPass(m1, m2).kevers[m1.serder.i].serder = m1.serder.d
            /\ SigSigPass(m1, m2).kevers[m1.serder.i].fn = 0
            /\ Get(SigSigPass(m1, m2).fels, m1.serder.i, <<>>) = <<m1.serder.d>>
            /\ Get(SigSigPass(m1, m2).kels, snKey(m1.serder.i, 0), <<>>) =
                  <<m1.serder.d>>
            /\ Get(SigSigPass(m1, m2).pses, snKey(m1.serder.i, 0), <<>>) = <<>>
            /\ Len(Get(SigSigPass(m1, m2).acc, m1.serder.i, <<>>)) = 1
            /\ SigSigPass(m1, m2).acc[m1.serder.i][1].fn = 0
            /\ processEscrows(Feed(SigSigPass(m1, m2), <<m1, m2>>)).acc =
                  SigSigPass(m1, m2).acc
            /\ processEscrows(Feed(SigSigPass(m1, m2), <<m1, m2>>)).fels =
                  SigSigPass(m1, m2).fels

\* the inception m0 was received with the signature of Ka and then with the
\* one of Kb, and the pass over the partially signed escrow accepted it
C19_Witness ==
    /\ nmsgs = 2
    /\ Len(Hist("M")) = 1
    /\ Hist("M")[1].d = "m0"
    /\ Hist("M")[1].via = "pse"
    /\ Hist("M")[1].fn = 0
    /\ Get(sigs, dgKey("M", "m0"), <<>>) \in
          { <<Siger(0, "Ka", "m0"), Siger(1, "Kb", "m0")>>,
            <<Siger(1, "Kb", "m0"), Siger(0, "Ka", "m0")>> }
    /\ Get(fels, "M", <<>>) = <<"m0">>
    /\ Get(pses, snKey("M", 0), <<>>) = <<>>

\* the receipt rc, then the event of message m, then one pass over the
\* escrows
RctThenEvent(rc, m) ==
    Feed(processReceiptWitness(St, rc, rc.wigers).S, <<m>>)
RctEventPass(rc, m) == processEscrows(RctThenEvent(rc, m))

\* rc is a receipt of the event of m, nothing is stored at its prefix and
\* sequence number nor of the event, and the event, received after the
\* receipt, is accepted or waits for witness signatures
ReceiptFirst(rc, m) ==
    /\ m.serder.i = rc.i /\ m.serder.s = rc.s /\ m.serder.d = rc.d
    /\ snKey(rc.i, rc.s) \notin
          DOMAIN kels \cup DOMAIN ooes \cup DOMAIN pses \cup DOMAIN pwes
            \cup DOMAIN ldes \cup DOMAIN uwes
    /\ dgKey(rc.i, rc.d) \notin DOMAIN dtss \cup DOMAIN evts
    /\ \/ rc.d \in Range(Get(RctThenEvent(rc, m).kels, snKey(rc.i, rc.s), <<>>))
       \/ rc.d \in Range(Get(RctThenEvent(rc, m).pwes, snKey(rc.i, rc.s), <<>>))

\* the witness signatures of receipt rc that verify under the witness list
\* of the receipted event
GoodWigs(S, rc, serder) ==
    {w \in Range(rc.wigers) :
       /\ UnverWits(S, serder).err = Ok
       /\ w.index < Len(UnverWits(S, serder).wits)
       /\ VerferVerify(UnverWits(S, serder).wits[w.index + 1], w, serder)}

\* C20: a witness receipt received before any event exists at its prefix and
\* sequence number is put in the unverified witness receipt escrow; after
\* the receipted event has been received, a pass over the escrows adds the
\* witness signatures that verify to the witness signatures of the event and
\* takes the receipt out of the escrow.
C20_ReceiptPromoted ==
    \A rc \in Rcts : \A m \in Msgs :
        ReceiptFirst(rc, m) =>
            /\ processReceiptWitness(St, rc, rc.wigers).err =
                  UnverifiedWitnessReceiptError
            /\ \A w \in Range(rc.wigers) :
                  [d |-> rc.d, wiger |-> w] \in
                    Range(Get(processReceiptWitness(St, rc, rc.wigers).S.uwes,
                              snKey(rc.i, rc.s), <<>>))
            /\ GoodWigs(RctThenEvent(rc, m), rc, m.serder) \subseteq
                  Range(Get(RctEventPass(rc, m).wigs, dgKey(rc.i, rc.d), <<>>))
            /\ Get(RctEventPass(rc, m).uwes, snKey(rc.i, rc.s), <<>>) = <<>>

\* m is a delegated event with its authorizer couple and md the delegating
\* event the couple names, there is no event yet at the couple's sequence
\* number in the delegator's KEL, and the node accepts md and then m when
\* they come in that order
DelegatingMissing(md, m) ==
    /\ m.serder.t \in {dip, drt}
    /\ m.seqner # NoInt
    /\ md.serder.s = m.seqner
    /\ md.serder.d = m.diger
    /\ snKey(md.serder.i, m.seqner) \notin DOMAIN kels
    /\ m.serder.d \notin Range(Get(kels, snKey(m.serder.i, m.serder.s), <<>>))
    /\ dgKey(m.serder.i, m.serder.d) \notin DOMAIN dtss
    /\ Feed(St, <<md>>).kevers[md.serder.i] # NoKever
    /\ Feed(St, <<md>>).kevers[md.serder.i].serder = md.serder.d
    /\ Feed(St, <<md, m>>).kevers[m.serder.i] # NoKever
    /\ Feed(St, <<md, m>>).kevers[m.serder.i].serder = m.serder.d

\* the delegated event first, then the delegating event, then one pass over
\* the partially signed escrow
DelThenSeal(md, m) == Feed(Processed(m).S, <<md>>)
DelSealPass(md, m) == processEscrowPartialSigs(DelThenSeal(md, m))

\* C21: a fully signed delegated event whose delegating event is not yet in
\* the delegator's KEL is not accepted and is put in the partially signed
\* escrow with its authorizer couple; once the delegating event has been
\* accepted, the next pass over the partially signed escrow accepts it.
C21_DelegationEscrowed ==
    \A md \in Msgs : \A m \in Msgs :
        DelegatingMissing(md, m) =>
            /\ Processed(m).err = MissingDelegationError
            /\ m.serder.d \in
                  Range(Get(Processed(m).S.pses,
                            snKey(m.serder.i, m.serder.s), <<>>))
            /\ Get(Processed(m).S.pdes, dgKey(m.serder.i, m.serder.d),
                   NoCouple) = [s |-> m.seqner, d |-> m.diger]
            /\ LogsOf(Processed(m).S, m.serder.i) = LogsOf(St, m.serder.i)
            /\ LogsOf(DelThenSeal(md, m), m.serder.i) = LogsOf(St, m.serder.i)
            /\ LogsOf(DelThenSeal(md, m), md.serder.i) =
                  LogsOf(Feed(St, <<md>>), md.serder.i)
            /\ LogsOf(DelSealPass(md, m), m.serder.i) =
                  LogsOf(Feed(St, <<md, m>>), m.serder.i)
            /\ m.serder.d \notin
                  Range(Get(DelSealPass(md, m).pses,
                            snKey(m.serder.i, m.serder.s), <<>>))

\* the delegated inception e0 came with its couple before the delegating
\* event dx1, and was accepted out of the partially signed escrow after it
C21_Witness ==
    /\ nmsgs = 3
    /\ Len(Hist("E")) = 1
    /\ Hist("E")[1].d = "e0"
    /\ Hist("E")[1].via = "pse"
    /\ Hist("E")[1].seqner = 1 /\ Hist("E")[1].diger = "dx1"
    /\ kevers["E"].delegator = "D"
    /\ Get(fels, "D", <<>>) = <<"d0", "dx1">>
    /\ pses = <<>>
    /\ dgKey("E", "e0") \notin DOMAIN pdes

\* the timestamp at dgkey is missing or older than timeout
Stale(dgkey, timeout) ==
    dgkey \notin DOMAIN dtss \/ now - dtss[dgkey] > timeout

\* the entry item is no longer in the escrow esc
Deleted(esc, item) == item[2] \notin Range(Get(esc, item[1], <<>>))

\* the escrow esc without the entry item
Without(esc, item) == DelIoVal(esc, item[1], item[2])

\* C22: an escrow entry whose timestamp is missing or older than the timeout
\* of its escrow, 1200 s for the out of order escrow and 3600 s for each of
\* the other six, is deleted by the next pass over that escrow, and the step
\* of the pass on it changes nothing but the escrow: the entry is not
\* processed
C22_StaleDeleted ==
    /\ TimeoutOOE = 1200 /\ TimeoutPSE = 3600 /\ TimeoutPWE = 3600
    /\ TimeoutLDE = 3600 /\ TimeoutUWE = 3600 /\ TimeoutURE = 3600
    /\ TimeoutVRE = 3600
    /\ \A it \in Range(Items(ooes)) :
         Stale(dgKey(it[1][1], it[2]), TimeoutOOE) =>
            /\ Deleted(processEscrowOutOfOrders(St).ooes, it)
            /\ unescrowOOE(St, it) = [St EXCEPT !.ooes = Without(ooes, it)]
    /\ \A it \in Range(Items(pses)) :
         Stale(dgKey(it[1][1], it[2]), TimeoutPSE) =>
            /\ Deleted(processEscrowPartialSigs(St).pses, it)
            /\ unescrowPSE(St, it) = [St EXCEPT !.pses = Without(pses, it)]
    /\ \A it \in Range(Items(pwes)) :
         Stale(dgKey(it[1][1], it[2]), TimeoutPWE) =>
            /\ Deleted(processEscrowPartialWigs(St).pwes, it)
            /\ unescrowPWE(St, it) = [St EXCEPT !.pwes = Without(pwes, it)]
    /\ \A it \in Range(Items(ldes)) :
         Stale(dgKey(it[1][1], it[2]), TimeoutLDE) =>
            /\ Deleted(processEscrowDuplicitous(St).ldes, it)
            /\ unescrowLDE(St, it) = [St EXCEPT !.ldes = Without(ldes, it)]
    /\ \A it \in Range(Items(uwes)) :
         Stale(dgKey(it[1][1], it[2].d), TimeoutUWE) =>
            /\ Deleted(processEscrowUnverWitness(St).uwes, it)
            /\ unescrowUWE(St, it) = [St EXCEPT !.uwes = Without(uwes, it)]
    /\ \A it \in Range(Items(ures)) :
         Stale(dgKey(it[1][1], it[2].d), TimeoutURE) =>
            /\ Deleted(processEscrowUnverNonTrans(St).ures, it)
            /\ unescrowURE(St, it) = [St EXCEPT !.ures = Without(ures, it)]
    /\ \A it \in Range(Items(vres)) :
         Stale(dgKey(it[1][1], it[2].d), TimeoutVRE) =>
            /\ Deleted(processEscrowUnverTrans(St).vres, it)
            /\ unescrowVRE(St, it) = [St EXCEPT !.vres = Without(vres, it)]

\* the clock is past every timeout and the out of order escrow, the
\* unverified receipt escrow and the unverified transferable receipt escrow
\* each hold an entry made at the start
C22_Witness ==
    /\ now = TimeoutURE + 1
    /\ \E it \in Range(Items(ooes)) :
          /\ dgKey(it[1][1], it[2]) \in DOMAIN dtss
          /\ now - dtss[dgKey(it[1][1], it[2])] > TimeoutOOE
    /\ \E it \in Range(Items(ures)) :
          /\ dgKey(it[1][1], it[2].d) \in DOMAIN dtss
          /\ now - dtss[dgKey(it[1][1], it[2].d)] > TimeoutURE
    /\ vres # Empty

\* r is a receipt with transferable signature groups, the KEL holds no event
\* at its prefix and sequence number, and it is received for the first time
EventMissing(r) ==
    /\ GetIoLast(kels, snKey(r.i, r.s)) = NoDig
    /\ dgKey(r.i, r.dig) \notin DOMAIN dtss

\* the receipt r is received, then the pass over its escrow runs
TransEscrowed(r) == processReceiptTrans(St, r, r.tsgs)
TransPass(r) == processEscrowUnverTrans(TransEscrowed(r).S)

\* every quintuple of the receipt r is in the escrow vre
Escrowed(vre, r) ==
    \A g \in Range(r.tsgs) :
        Range(Quintuples(r.d, g)) \subseteq Range(Get(vre, snKey(r.i, r.s), <<>>))

\* C23: a receipt with transferable signature groups received when no event
\* exists at its prefix and sequence number is put in the unverified
\* transferable receipt escrow, and a pass over that escrow, made at once
\* while the event is still missing, leaves it there.
C23_TransReceiptKept ==
    \A r \in RcGroups :
        EventMissing(r) =>
            /\ TransEscrowed(r).err = UnverifiedTransferableReceiptError
            /\ Escrowed(TransEscrowed(r).S.vres, r)
            /\ GetIoLast(TransPass(r).kels, snKey(r.i, r.s)) = NoDig
            /\ Escrowed(TransPass(r).vres, r)

\* the receipt r names the last event at its prefix and sequence number, an
\* accepted one, and the establishment event its group g names is not in
\* the receipter's KEL; the receipter is not this node
ReceipterMissing(r, g) ==
    /\ GetIoLast(kels, snKey(r.i, r.s)) = r.d
    /\ kevers[r.i] # NoKever
    /\ opre # g.i
    /\ GetIoLast(kels, snKey(g.i, g.s)) = NoDig

\* C24: a receipt with a transferable signature group for an accepted event
\* whose receipter has no establishment event at this node at the sequence
\* number the group names, the receipter being known or not known at all,
\* is put in the unverified transferable receipt escrow.
C24_ReceipterMissingEscrowed ==
    \A r \in RcGroups : \A g \in Range(r.tsgs) :
        ReceipterMissing(r, g) =>
            /\ TransEscrowed(r).err = UnverifiedTransferableReceiptError
            /\ Range(Quintuples(r.d, g)) \subseteq
                  Range(Get(TransEscrowed(r).S.vres, snKey(r.i, r.s), <<>>))

\* the same for a receipter this node has a key state of
C24_KnownReceipter ==
    \A r \in RcGroups : \A g \in Range(r.tsgs) :
        ReceipterMissing(r, g) /\ Known(St, g.i) =>
            /\ TransEscrowed(r).err = UnverifiedTransferableReceiptError
            /\ Range(Quintuples(r.d, g)) \subseteq
                  Range(Get(TransEscrowed(r).S.vres, snKey(r.i, r.s), <<>>))

\* the couples of receipt r that processReceipt verifies in this state: of a
\* non-transferable receipter that is not this node, signed over the last
\* event at the receipt's prefix and sequence number
Verified(r) ==
    {c \in Range(r.cigars) :
       /\ ~VerferTransferable(c.verfer)
       /\ ~OwnReceipt(c.verfer, r.i)
       /\ VerferVerify(c.verfer, c, Serder(r.d))}

\* the receipt r names the last event at its prefix and sequence number
Receipted(r) ==
    /\ GetIoLast(kels, snKey(r.i, r.s)) = r.d
    /\ kevers[r.i] # NoKever

\* the witness signature made of the couple c of a witness
WigOf(r, c) ==
    Siger(WitIndex(kevers[r.i].wits, c.verfer), c.key, c.msg)

\* the receipt couples and witness signatures at the receipted event after
\* processReceipt
RctsAfter(r) ==
    Range(Get(processReceipt(St, r, r.cigars).S.rcts, dgKey(r.i, r.d), <<>>))
WigsAfter(r) ==
    Range(Get(processReceipt(St, r, r.cigars).S.wigs, dgKey(r.i, r.d), <<>>))

\* C25 as stated: every verified couple of a receipt of an accepted event is
\* stored as a receipt couple at (prefix, event digest), and the couple of a
\* receipter in the current witness list is stored as a witness signature
\* with the receipter's index in that list as well.
C25_CoupleAndWig ==
    \A r \in RcCouples :
        Receipted(r) =>
            \A c \in Verified(r) :
                /\ c \in RctsAfter(r)
                /\ c.verfer \in Range(kevers[r.i].wits) =>
                      WigOf(r, c) \in WigsAfter(r)

\* C25 amended: a verified couple of a receipt of an accepted event is
\* stored at (prefix, event digest) as a witness signature with the
\* receipter's index in the current witness list when the receipter is in
\* that list, and is then not stored as a receipt couple; it is stored as a
\* receipt couple when the receipter is not in the list.
C25_CoupleOrWig ==
    \A r \in RcCouples :
        Receipted(r) =>
            /\ processReceipt(St, r, r.cigars).err = Ok
            /\ RctsAfter(r) =
                  Range(Get(rcts, dgKey(r.i, r.d), <<>>)) \cup
                    {c \in Verified(r) :
                       c.verfer \notin Range(kevers[r.i].wits)}
            /\ WigsAfter(r) =
                  Range(Get(wigs, dgKey(r.i, r.d), <<>>)) \cup
                    {WigOf(r, c) : c \in
                       {x \in Verified(r) :
                          x.verfer \in Range(kevers[r.i].wits)}}

\* w0 is accepted and the receipt c2 of it has been received: the couple of
\* the witness W3 is a witness signature with index 2 and no receipt
\* couple, the couple of W4 is a receipt couple
C25_Witness ==
    /\ GetIoLast(kels, snKey("A", 0)) = "w0"
    /\ Siger(2, "W3", "w0") \in Range(Get(wigs, dgKey("A", "w0"), <<>>))
    /\ Range(Get(rcts, dgKey("A", "w0"), <<>>)) = {Cigar("W4", "W4", "w0")}

\* what is stored against events: receipt couples, witness signatures and
\* receipt quadruples
StoredOf(S) == [rcts |-> S.rcts, wigs |-> S.wigs, vrcs |-> S.vrcs]

\* the outcome r of a receipt handler for a receipt naming the digest d at
\* (pre, sn), as the digest rule has it: with no event there the receipt is
\* held back with an unverified receipt error and nothing is stored; with a last event of another
\* digest it is rejected and the store is left as it was; whatever is stored
\* is stored for a receipt naming the last event
DigestRule(r, pre, sn, d) ==
    /\ GetIoLast(kels, snKey(pre, sn)) = NoDig =>
          /\ r.err \in {UnverifiedReceiptError, UnverifiedWitnessReceiptError,
                        UnverifiedTransferableReceiptError}
          /\ StoredOf(r.S) = StoredOf(St)
    /\ GetIoLast(kels, snKey(pre, sn)) \notin {NoDig, d} =>
          /\ r.err = ValidationError
          /\ r.S = St
    /\ StoredOf(r.S) # StoredOf(St) => GetIoLast(kels, snKey(pre, sn)) = d

\* the rule for receipts with couples and receipts with witness signatures
C26_Couples ==
    /\ \A r \in RcCouples :
          /\ DigestRule(processReceipt(St, r, r.cigars), r.i, r.s, r.d)
          /\ GetIoLast(kels, snKey(r.i, r.s)) = NoDig =>
                \A c \in Range(r.cigars) :
                    ~VerferTransferable(c.verfer) =>
                        [d |-> r.d, cigar |-> c] \in
                          Range(processReceipt(St, r, r.cigars).S.ures[
                                  snKey(r.i, r.s)])
    /\ \A r \in Rcts :
          DigestRule(processReceiptWitness(St, r, r.wigers),
                     r.i, r.s, r.d)

\* C26: a receipt's signature is stored against an event only if the digest
\* the receipt names is that of the last event at its prefix and sequence
\* number; a receipt naming another digest is rejected, nothing of it stored
\* or escrowed; a receipt for a prefix and sequence number without an event
\* is escrowed. For receipts with couples, with witness signatures and with
\* transferable signature groups.
C26_DigestMatch ==
    /\ C26_Couples
    /\ \A r \in RcGroups :
          DigestRule(processReceiptTrans(St, r, r.tsgs), r.i, r.s, r.d)

\* the parser stands at a message boundary and the first byte of the stream
\* is no message start: a counter or an opcode where a body is expected, or
\* an unused tritet where a body or a counter is expected
NoMessageStart ==
    /\ ims # <<>>
    /\ \/ gen.pc = "idle" /\ sniff(ims) # "msg"
       \/ gen.pc \in {"atts", "next"} /\ sniff(ims) = ColdStartError

\* a parser without the record of its last error
Sans(P) == [P EXCEPT !.g.err = Ok, !.halt = TRUE]

\* the parser resumed once after the bytes c arrived
Resumed(P, c) == Sans(allProcessor([P EXCEPT !.ims = @ \o c]))

\* C27: when the first byte at a message boundary is no message start, the
\* parser discards the whole buffer, hands nothing to the Kevery and changes
\* nothing in it, and then parses the bytes that arrive afterwards as a
\* parser does that starts with them on an empty stream
C27_ColdStartFlush ==
    NoMessageStart =>
        LET Q == allProcessor(PSt)
        IN /\ Q.g.err = ColdStartError
           /\ Q.ims = <<>>
           /\ Q.out = dispatched
           /\ Q.K = St
           /\ Q.g.pc = "idle"
           /\ \A c \in Chunks :
                Resumed(Q, c)
                    = Resumed([PSt EXCEPT !.ims = <<>>, !.g = Fresh], c)

\* the stream holds a whole message behind the byte that is no message start
C27_Witness ==
    /\ NoMessageStart
    /\ \E j \in 2..Len(ims) : ims[j].k = "body"
    /\ dispatched # <<>>

\* the units a pipelined message at the head of the stream takes up, when all
\* of it is in the stream: the body, the counter of the group and the units
\* the counter announces (the parser about to start on the message), or the
\* announced units alone (the parser waiting for the group); 0 otherwise
PipelinedSize ==
    IF /\ gen.pc = "idle" /\ Len(ims) >= 2
       /\ ims[1].k = "body" /\ ims[2].k = "ctr"
       /\ ims[2].code = AttachedMaterialQuadlets
       /\ Len(ims) >= 2 + ims[2].count
    THEN 2 + ims[2].count
    ELSE IF gen.pc = "pags" /\ Len(ims) >= gen.pags /\ gen.pags > 0
         THEN gen.pags
    ELSE 0

\* the announced units of that group
PipelinedGroup ==
    IF gen.pc = "idle" THEN SubSeq(ims, 3, PipelinedSize)
    ELSE SubSeq(ims, 1, PipelinedSize)

\* the units are counted groups of signatures one after the other: each a
\* counter of controller or witness signatures and as many signatures
RECURSIVE Counted(_)
Counted(seq) ==
    \/ seq = <<>>
    \/ /\ seq[1].k = "ctr"
       /\ seq[1].code \in {ControllerIdxSigs, WitnessIdxSigs}
       /\ Len(seq) >= 1 + seq[1].count
       /\ \A j \in 2..(1 + seq[1].count) : seq[j].k = "sig"
       /\ Counted(SubSeq(seq, 2 + seq[1].count, Len(seq)))

\* extraction fails inside the pipelined group at the head of the stream:
\* the group is not made of counted groups of signatures
SizedGroupFails ==
    /\ PipelinedSize > 0
    /\ ~ (PipelinedGroup # <<>> /\ Counted(PipelinedGroup))

\* C28: when extraction fails inside a pipelined attachment group, the body
\* and the announced group are removed from the stream and nothing else, the
\* message is not handed to the Kevery, and what follows the group is parsed
\* as a parser parses it that starts with it
C28_SizedGroupKept ==
    SizedGroupFails =>
        LET Q == allProcessor(PSt)
            rest == SubSeq(ims, PipelinedSize + 1, Len(ims))
        IN /\ Q.ims = rest
           /\ Q.out = dispatched
           /\ Q.K = St
           /\ Q.g.pc = "idle"
           /\ \A c \in Chunks \cup {<<>>} :
                Resumed(Q, c)
                    = Resumed([PSt EXCEPT !.ims = rest, !.g = Fresh], c)

\* extraction fails inside the group and a whole message follows the group
C28_Witness ==
    /\ SizedGroupFails
    /\ Len(ims) > PipelinedSize + 1
    /\ ims[PipelinedSize + 1].k = "body"
    /\ Len(allProcessor(allProcessor(PSt)).out) > Len(dispatched)

\* the errors of the parser itself, raised before a message is extracted
ParserErrors ==
    {ColdStartError, ExtractionError, SizedGroupError, VersionError}

\* the parser is resumed with something to do: it has not returned and is not
\* at the start of a message with an empty stream
Resumable == gen.pc # "done" /\ ~ (gen.pc = "idle" /\ ims = <<>>)

\* resumed once, the parser extracts a message in full and validation
\* rejects or escrows it: the parser finds no controller signature on it, or
\* Kevery.processEvent raises
RejectedNow ==
    /\ Resumable
    /\ allProcessor(PSt).g.pc = "idle"
    /\ allProcessor(PSt).g.err \notin ParserErrors \cup {Ok}

\* the units at the head of the stream that one resumption removes
RemovedNow == SubSeq(ims, 1, Len(ims) - Len(allProcessor(PSt).ims))

\* C29: when a message extracted in full is rejected or escrowed by
\* validation, the stream afterwards is what followed the message: what was
\* removed holds no unit of a later message, the messages handed to the
\* Kevery before stay as they were and in their order, and the parser parses
\* what follows as a fresh parser does that starts with it
C29_ValidationKeepsStream ==
    RejectedNow =>
        LET Q == allProcessor(PSt)
            n == Len(ims) - Len(Q.ims)
        IN /\ n >= 0
           /\ Q.ims = SubSeq(ims, n + 1, Len(ims))
           /\ \A j \in 1..n :
                \/ RemovedNow[j].k \in {"ctr", "sig", "tail"}
                \/ j = 1 /\ gen.pc \in {"idle", "body"}
           /\ \A j \in 1..n :
                RemovedNow[j].k = "sig" =>
                    /\ Len(Q.out) = Len(dispatched) + 1
                    /\ LET m == Q.out[Len(Q.out)]
                           all == m.sigers \o m.wigers
                       IN \E k \in 1..Len(all) :
                            all[k] = RemovedNow[j].siger
           /\ Len(Q.out) \in {Len(dispatched), Len(dispatched) + 1}
           /\ SubSeq(Q.out, 1, Len(dispatched)) = dispatched
           /\ \A c \in Chunks \cup {<<>>} :
                Resumed(Q, c)
                    = Resumed([PSt EXCEPT !.ims = Q.ims, !.g = Fresh,
                                          !.K = Q.K, !.out = Q.out], c)

\* a message is handed to the Kevery, which raises, and the message that
\* follows it in the stream is handed to the Kevery at the next resumption
C29_Witness ==
    /\ RejectedNow
    /\ Len(allProcessor(PSt).out) = Len(dispatched) + 1
    /\ allProcessor(PSt).ims # <<>>
    /\ Len(allProcessor(allProcessor(PSt)).out) = Len(dispatched) + 2
    /\ dispatched # <<>>

\* the generator has not returned and resuming it changes nothing: the loop
\* of Parser.process goes on for ever
Stalled ==
    /\ gen.pc # "done"
    /\ allProcessor(PSt) = [PSt EXCEPT !.halt = TRUE]

\* C30: over every fixed buffer Parser.process returns after finitely many
\* steps: nothing arrives after the call and the generator does the same
\* from the same state, so until it has returned every resumption has to
\* change the state
C30_ProcessReturns == gen.pc = "done" \/ ~ Stalled

\* the entries the first seen logs gain in a step, as (prefix, ordinal + 1),
\* of the prefixes in the set A
NewlySeen(A) ==
    UNION {{<<a, j>> : j \in (Len(Get(fels, a, <<>>)) + 1)
                                ..Len(Get(fels', a, <<>>))} : a \in A}

\* the cues a step appends are the receipt cues of the events that the
\* prefixes in A gain in their first seen logs, one for each
CuesFor(A) ==
    LET new == SubSeq(cues', Len(cues) + 1, Len(cues'))
    IN /\ Len(cues') >= Len(cues)
       /\ SubSeq(cues', 1, Len(cues)) = cues
       /\ Len(new) = Cardinality(NewlySeen(A))
       /\ \A p \in NewlySeen(A) :
            \E j \in 1..Len(new) :
                new[j] = [kin |-> "receipt", serder |-> fels'[p[1]][p[2]]]

\* C31: every step appends exactly one receipt cue for each first seen
\* acceptance of an event that is not the node's own, and no other cue:
\* none for the node's own events, none for events that are rejected,
\* escrowed or received again
C31_OneCuePerAcceptance == [][CuesFor(DOMAIN Prefixes \ {opre})]_vars

\* the same with the node's own events cued too when the node is in direct
\* mode
C31_DirectCuesOwn ==
    [][CuesFor(IF direct THEN DOMAIN Prefixes
               ELSE DOMAIN Prefixes \ {opre})]_vars

\* the entry it of the out of order escrow holds a delegated event whose
\* authorizer couple was stored when it was escrowed, the entry is not stale,
\* and the event processed now with its signatures and that couple is
\* accepted: its prior event and its delegating event have been accepted
DelegatedReady(it) ==
    LET dgkey == dgKey(it[1][1], it[2])
    IN /\ ~ Stale(dgkey, TimeoutOOE)
       /\ dgkey \in DOMAIN evts /\ dgkey \in DOMAIN sigs
       /\ dgkey \in DOMAIN pdes
       /\ Serder(evts[dgkey]).t \in {dip, drt}
       /\ processEvent(St, Serder(evts[dgkey]), sigs[dgkey], <<>>,
                       pdes[dgkey].s, pdes[dgkey].d).err = Ok

\* C32: a delegated event escrowed as out of order with its authorizer
\* couple is accepted by the pass over the out of order escrow once its
\* prior event and its delegating event have been accepted
C32_DelegatedUnescrowed ==
    \A it \in Range(Items(ooes)) :
        DelegatedReady(it) =>
            LET T == processEscrowOutOfOrders(St)
            IN /\ GetIoLast(T.kels, it[1]) = it[2]
               /\ T.kevers[it[1][1]].serder = it[2]
               /\ Deleted(T.ooes, it)

\* what the pass does with such an entry: it drops the entry and leaves the
\* logs and the key state of the prefix as they were
C32_DelegatedDropped ==
    \A it \in Range(Items(ooes)) :
        DelegatedReady(it) =>
            LET T == unescrowOOE(St, it)
            IN /\ LogsOf(T, it[1][1]) = LogsOf(St, it[1][1])
               /\ Deleted(T.ooes, it)

\* the event of the entry with digest dig of prefix pre, as a message with
\* the signatures stored with it
EscrowedMsg(S, pre, dig) ==
    [serder |-> Serder(S.evts[dgKey(pre, dig)]),
     sigers |-> S.sigs[dgKey(pre, dig)],
     wigers |-> <<>>, seqner |-> NoInt, diger |-> NoDig]

\* the entries of the out of order escrow of S at the sequence numbers sn,
\* sn+1, ... of pre, up to the first sequence number that does not hold
\* exactly one entry that is complete and not stale
RECURSIVE ChainFrom(_, _, _)
ChainFrom(S, pre, sn) ==
    LET at == Get(S.ooes, snKey(pre, sn), <<>>)
    IN IF Len(at) # 1 THEN <<>>
       ELSE IF EscrowedEvent(S, dgKey(pre, at[1]), TimeoutOOE) # Ok THEN <<>>
       ELSE <<at[1]>> \o ChainFrom(S, pre, sn + 1)

\* the out of order escrow holds a chain of at least two events of pre that
\* starts right after the current event of pre, and the events of the chain
\* received now one after the other in this order are all accepted
ContiguousChain(pre) ==
    /\ kevers[pre] # NoKever
    /\ LET chain == ChainFrom(St, pre, kevers[pre].sn + 1)
           msgs == [j \in 1..Len(chain) |-> EscrowedMsg(St, pre, chain[j])]
       IN /\ Len(chain) >= 2
          /\ Feed(St, msgs).kevers[pre].sn = kevers[pre].sn + Len(chain)

C34_RejectionKeepsState ==
    \A m \in Msgs :
        Processed(m).err # Ok =>
            /\ LogsOf(Processed(m).S, m.serder.i) = LogsOf(St, m.serder.i)
            /\ Processed(m).S.kevers = kevers
            /\ Processed(m).S.kels = kels
            /\ Processed(m).S.fels = fels

\* an event has been escrowed and another one rejected while the prefix had
\* a key state with accepted events, and one while it had none
C34_Witness ==
    /\ \E m \in Msgs :
          /\ kevers[m.serder.i] # NoKever
          /\ kevers[m.serder.i].sn >= 1
          /\ Processed(m).err = ValidationError
    /\ \E m \in Msgs :
          /\ kevers[m.serder.i] # NoKever
          /\ Processed(m).err \in {OutOfOrderError, MissingSignatureError,
                                   LikelyDuplicitousError}
    /\ \E a \in DOMAIN ooes \cup DOMAIN pses \cup DOMAIN ldes :
          a[1] \in DOMAIN kevers
    /\ \E m \in Msgs :
          /\ kevers[m.serder.i] = NoKever
          /\ m.serder.t = icp
          /\ Processed(m).err # Ok

\* m is a rotation of a prefix without delegator and witnesses that chains to
\* the current event of the prefix, has the keys and the threshold the
\* current next key commitment commits to, a threshold its own keys can
\* meet, and verified signatures of its own keys that meet it
SoundRotation(m) ==
    LET kv == kevers[m.serder.i]
    IN /\ m.serder.t = rot
       /\ kv # NoKever
       /\ ~ kv.delegated
       /\ kv.wits = <<>> /\ m.serder.br = <<>> /\ m.serder.ba = <<>>
       /\ m.serder.bt = 0
       /\ m.serder.s = kv.sn + 1
       /\ SerderCompare(kv.serder, m.serder.p)
       /\ kv.nexter # EmptyN
       /\ NexterVerify(kv.nexter, Limen(m.serder.kt), m.serder.k)
       /\ Len(m.serder.k) >= TholderSize(m.serder.kt)
       /\ \A sg \in Range(m.sigers) : sg.index < Len(m.serder.k)
       /\ m.serder.kt > 0
       /\ Cardinality(VerifiedIndices(m.sigers, m.serder.k, m.serder.d))
             >= m.serder.kt

\* C35: a rotation that chains to the current event, matches the prior next
\* key commitment and carries verified signatures that meet its own
\* threshold is accepted, whatever the threshold of the current key state
\* is, also when it has fewer keys than that threshold asks for.
C35_RotationOwnThreshold ==
    \A m \in Msgs :
        SoundRotation(m) =>
            /\ Processed(m).err = Ok
            /\ Processed(m).S.kevers[m.serder.i].serder = m.serder.d
            /\ Processed(m).S.kevers[m.serder.i].verfers = m.serder.k

\* what the code does: such a rotation is accepted when it has at least as
\* many keys as the threshold of the current key state asks for, and is
\* rejected with the logs unchanged when it has fewer
C35_RotationPriorThreshold ==
    \A m \in Msgs :
        SoundRotation(m) =>
            IF Len(m.serder.k) >= TholderSize(kevers[m.serder.i].tholder)
            THEN /\ Processed(m).err = Ok
                 /\ Processed(m).S.kevers[m.serder.i].serder = m.serder.d
            ELSE /\ Processed(m).err = ValidationError
                 /\ LogsOf(Processed(m).S, m.serder.i) =
                       LogsOf(St, m.serder.i)

\* the positions of the establishment events in the acceptance history of a
EstIdx(a) == {j \in 1..Len(Hist(a)) : Serder(Hist(a)[j].d).t \in Ests}

\* C36: in every key state the last establishment location has a sequence
\* number at most the current one and names an establishment event of the
\* prefix that is in its KEL index, the last one accepted; every accepted
\* rotation, a recovery rotation too, has a sequence number greater than
\* that of the last establishment location before it, so the accepted
\* establishment events have strictly increasing sequence numbers.
C36_LastEstLocation ==
    \A a \in DOMAIN Prefixes :
        kevers[a] # NoKever =>
            LET kv == kevers[a]
                J == EstIdx(a)
                last == CHOOSE j \in J : \A g \in J : g <= j
            IN /\ J # {}
               /\ kv.lastEst.s <= kv.sn
               /\ kv.lastEst = [s |-> Serder(Hist(a)[last].d).s,
                                d |-> Hist(a)[last].d]
               /\ Serder(kv.lastEst.d).t \in Ests
               /\ Serder(kv.lastEst.d).i = a
               /\ kv.lastEst.d \in
                     Range(Get(kels, snKey(a, kv.lastEst.s), <<>>))
               /\ \A j \in J :
                     Serder(Hist(a)[j].d).t \in {rot, drt} =>
                        /\ Hist(a)[j].kever # NoKever
                        /\ Hist(a)[j].kever.lastEst.s < Serder(Hist(a)[j].d).s
               /\ \A j \in J : \A g \in J :
                     j < g => Serder(Hist(a)[j].d).s < Serder(Hist(a)[g].d).s

\* a recovery rotation has been accepted over interactions accepted after
\* an earlier rotation
C36_Witness ==
    \E a \in DOMAIN acc :
        \E j \in EstIdx(a) :
            /\ Recovery(a, j)
            /\ Hist(a)[j].kever.lastEst.s >= 1
            /\ kevers[a].lastEst.d = Hist(a)[j].d
            /\ kevers[a].lastEst.s < Hist(a)[j].kever.sn

\* the escrow index of S an event rejected with err is put in
EscrowOf(S, err) ==
    CASE err = OutOfOrderError -> S.ooes
      [] err = MissingSignatureError -> S.pses
      [] err = MissingDelegationError -> S.pses
      [] err = MissingWitnessSignatureError -> S.pwes
      [] err = LikelyDuplicitousError -> S.ldes
      [] OTHER -> Empty

\* processing m now puts its event in an escrow that does not hold it
NewlyEscrowed(m) ==
    LET r == Processed(m)
        key == snKey(m.serder.i, m.serder.s)
    IN /\ m.serder.d \in Range(Get(EscrowOf(r.S, r.err), key, <<>>))
       /\ m.serder.d \notin Range(Get(EscrowOf(St, r.err), key, <<>>))

\* C37: an event that enters an escrow gets the time of this escrow as the
\* timestamp its staleness is counted from, also when a timestamp was stored
\* for its digest before, so the pass over that escrow at the same clock
\* reading does not delete it as stale.
C37_FullTimeout ==
    \A m \in Msgs :
        NewlyEscrowed(m) =>
            LET dgkey == dgKey(m.serder.i, m.serder.d)
            IN /\ dgkey \in DOMAIN Processed(m).S.dtss
               /\ Processed(m).S.dtss[dgkey] = now

\* what the code does: the timestamp is written only where the digest has
\* none, and an older one stays
C37_FirstTimestampKept ==
    \A m \in Msgs :
        NewlyEscrowed(m) =>
            LET dgkey == dgKey(m.serder.i, m.serder.d)
            IN /\ dgkey \in DOMAIN Processed(m).S.dtss
               /\ Processed(m).S.dtss[dgkey] =
                     IF dgkey \in DOMAIN dtss THEN dtss[dgkey] ELSE now

\* an event escrowed as out of order anew after its first entry went stale
\* is deleted by the pass over the escrow at the clock reading of its escrow
C37_DeletedAtOnce ==
    \A m \in Msgs :
        (/\ NewlyEscrowed(m)
         /\ Processed(m).err = OutOfOrderError
         /\ dgKey(m.serder.i, m.serder.d) \in DOMAIN dtss
         /\ now - dtss[dgKey(m.serder.i, m.serder.d)] > TimeoutOOE) =>
            Deleted(processEscrowOutOfOrders(Processed(m).S).ooes,
                    <<snKey(m.serder.i, m.serder.s), m.serder.d>>)

\* a resumption of the generator ends a call of msgProcessor: the generator
\* is back at the start of a message
MessageEnded ==
    /\ gen.pc # "done"
    /\ gen'.pc = "idle"
    /\ Len(ims') <= Len(ims)

\* C38: a call of msgProcessor that ends either hands exactly one message to
\* the Kevery or ends with a raised error; no call ends without error and
\* without a message handed on, whether the pipeline option is set or not.
C38_NoSilentConsumption ==
    [][MessageEnded =>
          \/ /\ Len(dispatched') = Len(dispatched) + 1
             /\ SubSeq(dispatched', 1, Len(dispatched)) = dispatched
          \/ /\ dispatched' = dispatched
             /\ gen'.err # Ok]_vars

\* what the code does with the pipeline option set: a message whose
\* attachments are a pipelined group is taken off the stream, body and
\* group, without being handed on and without an error
C38_PipelinedDropped ==
    [][(/\ MessageEnded
        /\ pipeline
        /\ gen.pc = "pags"
        /\ Len(ims) >= gen.pags)
          => /\ dispatched' = dispatched
             /\ gen'.err = Ok
             /\ ims' = SubSeq(ims, gen.pags + 1, Len(ims))
             /\ UNCHANGED kvars]_vars

\* the generator holds a message that is complete: its body and a group of
\* controller signatures with every signature its counter announces have
\* been extracted, and nothing of the buffer is left
CompleteMessage ==
    /\ gen.serder # NoDig
    /\ gen.sigers # <<>>
    /\ gen.pc \in {"item", "next", "dispatch"}
    /\ gen.left = 0
    /\ ims = <<>>

\* C39: a message whose body and attachments are all in the buffer is
\* dispatched though nothing arrives any more, framed or not: the generator
\* resumed over and over does the same from the same state, so while it
\* holds a complete message every resumption has to change the state.
C39_CompleteDispatched == CompleteMessage => ~ Stalled

\* what the code does: framed, the generator never waits while it holds a
\* complete message; not framed, it waits for the byte after the message
C39_FramedDispatched ==
    /\ (framed /\ Stalled) =>
          \/ gen.pc \in {"idle", "body", "atts", "pags"}
          \/ gen.pc = "item" /\ gen.left > 0
    /\ (~ framed /\ CompleteMessage /\ ~ gen.pipelined) =>
          /\ gen.pc = "next"
          /\ Stalled

\* the receipt couple c attached to the event of m is in the receipts of the
\* event in S, as a couple or as a witness signature, or in the escrow of
\* unverified receipts
CoupleKept(S, m, c) ==
    LET pre == m.serder.i
        dgkey == dgKey(pre, m.serder.d)
    IN \/ c \in Range(Get(S.rcts, dgkey, <<>>))
       \/ \E w \in Range(Get(S.wigs, dgkey, <<>>)) :
             w.key = c.key /\ w.msg = c.msg
       \/ [d |-> m.serder.d, cigar |-> c] \in
             Range(Get(S.ures, snKey(pre, m.serder.s), <<>>))

\* the receipt quadruple q attached to the event of m is in the receipts of
\* the event in S or in the escrow of unverified transferable receipts
QuadrupleKept(S, m, q) ==
    LET pre == m.serder.i
    IN \/ q \in Range(Get(S.vrcs, dgKey(pre, m.serder.d), <<>>))
       \/ [d |-> m.serder.d, i |-> q.i, s |-> q.s, sd |-> q.sd,
           siger |-> q.siger] \in
             Range(Get(S.vres, snKey(pre, m.serder.s), <<>>))

\* the message m dispatched now
Dispatched(m) ==
    dispatchEvent(St, m.serder, m.sigers, m.wigers, m.seqner, m.diger,
                  m.cigars, m.trqs)

\* the Kevery escrows or rejects the event of m handed to it now
EventRaises(m) == m.sigers # <<>> /\ Processed(m).err # Ok

\* C40: the receipt couples and quadruples attached to an event message are
\* stored or escrowed also when the Kevery escrows or rejects the event.
C40_AttachedReceiptsKept ==
    \A m \in ReplayMsgs :
        EventRaises(m) =>
            /\ \A c \in Range(m.cigars) : CoupleKept(Dispatched(m).S, m, c)
            /\ \A q \in Range(m.trqs) : QuadrupleKept(Dispatched(m).S, m, q)

\* what the code does: when the Kevery raises, the dispatch ends with the
\* state the Kevery left and the error it raised, and the attached receipts
\* are neither written nor escrowed
C40_AttachedReceiptsDropped ==
    \A m \in ReplayMsgs :
        EventRaises(m) =>
            /\ Dispatched(m).err = Processed(m).err
            /\ Dispatched(m).S = Processed(m).S
            /\ Dispatched(m).S.rcts = rcts /\ Dispatched(m).S.ures = ures
            /\ Dispatched(m).S.vrcs = vrcs /\ Dispatched(m).S.vres = vres

\* when the Kevery accepts the event, or has accepted it before, every
\* attached couple is kept, and every quadruple unless the dispatch raises
\* a validation error
C40_ReceiptsOfAccepted ==
    \A m \in ReplayMsgs :
        (m.sigers # <<>> /\ Processed(m).err = Ok) =>
            /\ \A c \in Range(m.cigars) : CoupleKept(Dispatched(m).S, m, c)
            /\ Dispatched(m).err # ValidationError =>
                  \A q \in Range(m.trqs) : QuadrupleKept(Dispatched(m).S, m, q)

====
